---- MODULE Spec2Model ----
(***************************************************************************)
(* Model of the receipt scanner's content cache                            *)
(* (src/src/storage/cache_manager.py) and OCR fallback chain               *)
(* (src/src/processing/ocr_engine.py).                                     *)
(*                                                                         *)
(* Sizes are counted in megabytes: the factor 1024 * 1024 that             *)
(* enforce_cache_size_limit applies to max_cache_size_mb is applied to     *)
(* both sides of every comparison.  Time is counted in days.               *)
(***************************************************************************)
EXTENDS Integers, Sequences, FiniteSets, TLC

\* ---------------------------------------------------------------- bounds
MaxTime == 1
MaxAgeDays == 1
MaxConf == 2

\* logical ids (file_id); integers so that the tuple sort of
\* enforce_cache_size_limit can break timestamp ties on file_id
Ids == {1, 2}
\* values of StorageConfig.max_cache_size_mb the cache is run with
CacheSizesMb == {1, 2}
\* byte contents a source file can have
Contents == {"x", "y"}

NoTime == -1
NoPath == 0

VARIABLES
    files,        \* cache_index['files']  : file_id -> cache info
    hashes,       \* cache_index['hashes'] : content_hash -> file_id
    stats,        \* cache_index['stats']
    disk,         \* images_dir: cache path -> bytes stored there
    persisted,    \* content of cache_index.json
    config,       \* StorageConfig
    now,          \* datetime.now()
    ret,          \* last call and what it returned
    thr,          \* add_file_to_cache calls in progress, one per worker
    up,           \* a CacheManager has been constructed
    ocfg,         \* OCREngine: ProcessingConfig and engine availability
    ocr,          \* _perform_ocr: position, engine calls made, result
    batch,        \* batch-level operation: last call, its input, its outcome
    vld,          \* validate_receipt: the record, the clock, the last result
    ext,          \* extract_receipt_data: the text and what was extracted
    dup,          \* duplicate detector call: operation, input, output
    prs,          \* parse_receipt_advanced call: input record, returned record
    ldr           \* configuration loader and main(): sources, loaded config, pipeline started

vars == <<files, hashes, stats, disk, persisted, config, now, ret, thr, up, ocfg, ocr, batch, vld, ext, dup, prs, ldr>>

\* ------------------------------------------------------ pure helpers
\* hashlib.md5 over the file's bytes: distinct contents, distinct digests
calculate_file_hash(c) == "md5_" \o c

\* cache_path.stat().st_size of a copied file
st_size(c) == IF c = "x" THEN 1 ELSE 2

\* images_dir / f"{file_id}{extension}" (all sources carry the same extension)
get_cached_file_path(id) == id

EmptyFn == [k \in {} |-> 0]

Without(f, k) == [j \in DOMAIN f \ {k} |-> f[j]]
With(f, k, v) == [j \in DOMAIN f \cup {k} |-> IF j = k THEN v ELSE f[j]]

\* _load_cache_index's default structure
DefaultIndex ==
    [files |-> EmptyFn, hashes |-> EmptyFn,
     stats |-> [total_files |-> 0, total_size_bytes |-> 0, last_cleanup |-> NoTime]]

\* the dict written at lines 153-160 (no cache_path, file_size, last_accessed)
AliasInfo(id, existing, h, t) ==
    [original_file_id |-> id, cache_file_id |-> existing, cache_path |-> NoPath,
     content_hash |-> h, file_size |-> 0, cached_at |-> t,
     last_accessed |-> NoTime, is_duplicate |-> TRUE]

\* the dict written at lines 175-185
CacheInfo(id, h, size, t) ==
    [original_file_id |-> id, cache_file_id |-> id,
     cache_path |-> get_cached_file_path(id),
     content_hash |-> h, file_size |-> size, cached_at |-> t,
     last_accessed |-> t, is_duplicate |-> FALSE]

\* the in-memory index and the images directory as one value
Cur == [files |-> files, hashes |-> hashes, stats |-> stats, disk |-> disk]

IndexOf(s) == [files |-> s.files, hashes |-> s.hashes, stats |-> s.stats]

is_file_cached(s, id) == id \in DOMAIN s.files

\* remove_file_from_cache on state s
RemoveFile(s, id) ==
    IF ~is_file_cached(s, id) THEN s
    ELSE LET info == s.files[id] IN
         IF ~info.is_duplicate
         THEN [files  |-> Without(s.files, id),
               hashes |-> Without(s.hashes, info.content_hash),
               stats  |-> [s.stats EXCEPT !.total_files = @ - 1,
                                          !.total_size_bytes = @ - info.file_size],
               disk   |-> Without(s.disk, info.cache_path)]
         ELSE [s EXCEPT !.files = Without(s.files, id)]

\* remove_file_from_cache applied to each id of a sequence in turn
RECURSIVE RemoveEach(_, _)
RemoveEach(s, ids) ==
    IF ids = <<>> THEN s ELSE RemoveEach(RemoveFile(s, Head(ids)), Tail(ids))

\* a set of ids as a sequence in ascending id order
RECURSIVE SeqOfSet(_)
SeqOfSet(S) ==
    IF S = {} THEN <<>>
    ELSE LET m == CHOOSE x \in S : \A y \in S : x <= y
         IN <<m>> \o SeqOfSet(S \ {m})

\* what get_cached_file_path_by_id returns on state s:
\* a path, "miss" for None, "error" for the KeyError raised when the alias
\* target is itself an entry without 'cache_path'
GetOutcome(s, id) ==
    IF ~is_file_cached(s, id) THEN "miss"
    ELSE LET info == s.files[id] IN
         IF info.is_duplicate
         THEN IF ~is_file_cached(s, info.cache_file_id) THEN "miss"
              ELSE IF s.files[info.cache_file_id].cache_path = NoPath THEN "error"
              ELSE IF s.files[info.cache_file_id].cache_path \in DOMAIN s.disk
                   THEN "hit" ELSE "gone"
         ELSE IF info.cache_path \in DOMAIN s.disk THEN "hit" ELSE "gone"

\* the path get_cached_file_path_by_id resolves file_id to (lines 216-224)
ResolvedPath(s, id) ==
    IF s.files[id].is_duplicate
    THEN s.files[s.files[id].cache_file_id].cache_path
    ELSE s.files[id].cache_path

\* value returned by get_cached_file_path_by_id: the path on a hit
GetResult(s, id) ==
    LET o == GetOutcome(s, id) IN
    IF o = "hit" THEN ResolvedPath(s, id)
    ELSE IF o = "error" THEN -1 ELSE NoPath

\* the last call: its name, file_id argument and returned value; for
\* add_file_to_cache also the bytes given and whether no entry held them before
Ret(op, id, val) ==
    [op |-> op, id |-> id, val |-> val, removed |-> <<>>, content |-> "",
     fresh |-> FALSE]

\* some entry of the index carries content hash h
Holds(s, h) == \E k \in DOMAIN s.files : s.files[k].content_hash = h

Idle == [pc |-> "idle", file_id |-> 0, content |-> "", existing |-> 0]

\* ------------------------------------------------------------- Init
\* OCR engine not in use
OcrOff == [pc |-> "off", calls |-> <<>>,
           result |-> [success |-> FALSE, method |-> "", confidence |-> 0,
                       text |-> "", error |-> ""]]
OcfgOff == [vision_available |-> FALSE, tesseract_available |-> FALSE,
            fallback_to_tesseract |-> FALSE, confidence_threshold |-> 0]

\* no batch-level operation called yet
BatchOff ==
    [op |-> "none", input |-> <<>>,
     out |-> [kind |-> "none", error |-> "", results |-> <<>>]]

\* no record validated yet
ValOff == [pc |-> "off"]

\* no text extracted yet
ExtOff == [pc |-> "off"]
DupOff == [op |-> "off"]
PrsOff == [pc |-> "off"]
LdrOff == [pc |-> "off"]

\* CacheManager.__init__ on an empty cache directory
InitCache(W) ==
    /\ files = EmptyFn
    /\ hashes = EmptyFn
    /\ stats = DefaultIndex.stats
    /\ disk = EmptyFn
    /\ persisted = [ok |-> TRUE, index |-> DefaultIndex]
    /\ config \in [max_cache_size_mb : CacheSizesMb]
    /\ now = 0
    /\ ret = Ret("init", 0, 0)
    /\ thr = [t \in W |-> Idle]
    /\ up = TRUE
    /\ ocfg = OcfgOff
    /\ ocr = OcrOff
    /\ batch = BatchOff
    /\ vld = ValOff
    /\ ext = ExtOff
    /\ dup = DupOff
    /\ prs = PrsOff
    /\ ldr = LdrOff

Init == InitCache({1})

Install(s) ==
    /\ files' = s.files
    /\ hashes' = s.hashes
    /\ stats' = s.stats
    /\ disk' = s.disk

\* _save_cache_index
Save(s) == persisted' = [ok |-> TRUE, index |-> IndexOf(s)]

\* ------------------------------------------------ add_file_to_cache
AddAlias(s, id, h, t) ==
    [s EXCEPT !.files = With(s.files, id, AliasInfo(id, s.hashes[h], h, t))]

AddNew(s, id, c, t) ==
    LET h == calculate_file_hash(c) IN
    [files  |-> With(s.files, id, CacheInfo(id, h, st_size(c), t)),
     hashes |-> With(s.hashes, h, id),
     stats  |-> [s.stats EXCEPT !.total_files = @ + 1,
                                !.total_size_bytes = @ + st_size(c)],
     disk   |-> With(s.disk, get_cached_file_path(id), c)]

AddFile(s, id, c, t) ==
    IF calculate_file_hash(c) \in DOMAIN s.hashes
    THEN AddAlias(s, id, calculate_file_hash(c), t)
    ELSE AddNew(s, id, c, t)

\* add_file_to_cache(file_id, source_path, metadata); readable = FALSE is a
\* source file that cannot be opened (calculate_file_hash raises)
Put(id, c, readable) ==
    /\ up
    /\ IF readable
       THEN \E s \in {AddFile(Cur, id, c, now)} :
            /\ Install(s)
            /\ Save(s)
            /\ ret' = [Ret("put", id, 1) EXCEPT !.content = c,
                                                 !.fresh = ~Holds(Cur, calculate_file_hash(c))]
       ELSE /\ UNCHANGED <<files, hashes, stats, disk, persisted>>
            /\ ret' = Ret("put", id, 0)
    /\ UNCHANGED <<config, now, thr, up, ocfg, ocr, batch, vld, ext, dup, prs, ldr>>

\* --------------------------------------- get_cached_file_path_by_id
GetFile(s, id, t) ==
    LET o == GetOutcome(s, id) IN
    IF o = "hit" THEN [s EXCEPT !.files[id].last_accessed = t]
    ELSE IF o = "gone" THEN RemoveFile(s, id)
    ELSE s

Get(id) ==
    /\ up
    /\ \E o \in {GetOutcome(Cur, id)}, s \in {GetFile(Cur, id, now)} :
       /\ Install(s)
       /\ IF o \in {"hit", "gone"} THEN Save(s) ELSE UNCHANGED persisted
       /\ ret' = Ret("get", id, GetResult(Cur, id))
    /\ UNCHANGED <<config, now, thr, up, ocfg, ocr, batch, vld, ext, dup, prs, ldr>>

\* ------------------------------------------- remove_file_from_cache
Remove(id) ==
    /\ up
    /\ \E s \in {RemoveFile(Cur, id)} :
       /\ Install(s)
       /\ IF is_file_cached(Cur, id) THEN Save(s) ELSE UNCHANGED persisted
       /\ ret' = Ret("remove", id, 1)
    /\ UNCHANGED <<config, now, thr, up, ocfg, ocr, batch, vld, ext, dup, prs, ldr>>

\* ---------------------------------------------------- cleanup_cache
\* cleanup with the comparison of line 297 made inclusive
FilesToRemove_inclusive(s, cutoff_date) ==
    {id \in DOMAIN s.files : s.files[id].cached_at <= cutoff_date}

FilesToRemove(s, cutoff_date) ==
    {id \in DOMAIN s.files : s.files[id].cached_at < cutoff_date}

CleanupFiles(s, max_age_days, t) ==
    LET cutoff_date == t - max_age_days
        r == RemoveEach(s, SeqOfSet(FilesToRemove(s, cutoff_date)))
    IN [r EXCEPT !.stats.last_cleanup = t]

Cleanup(max_age_days) ==
    /\ up
    /\ \E s \in {CleanupFiles(Cur, max_age_days, now)} :
       /\ Install(s)
       /\ Save(s)
       /\ ret' = [Ret("cleanup", 0, max_age_days) EXCEPT
                     !.removed = SeqOfSet(FilesToRemove(Cur, now - max_age_days))]
    /\ UNCHANGED <<config, now, thr, up, ocfg, ocr, batch, vld, ext, dup, prs, ldr>>

\* ----------------------------------------- enforce_cache_size_limit
\* file_items without the is_duplicate test of line 340
FileItems_all(s) == DOMAIN s.files

\* file_items: the non-duplicate entries (lines 339-342)
FileItems(s) == {id \in DOMAIN s.files : ~s.files[id].is_duplicate}

\* file_items.sort(): tuples (last_accessed, file_id, file_size)
ItemBefore(s, a, b) ==
    \/ s.files[a].last_accessed < s.files[b].last_accessed
    \/ /\ s.files[a].last_accessed = s.files[b].last_accessed
       /\ a < b

RECURSIVE SortItems(_, _)
SortItems(s, S) ==
    IF S = {} THEN <<>>
    ELSE LET m == CHOOSE x \in S : \A y \in S \ {x} : ItemBefore(s, x, y)
         IN <<m>> \o SortItems(s, S \ {m})

\* the loop of lines 349-355: ids removed, in order
RECURSIVE EvictLoop(_, _, _, _, _)
EvictLoop(s, items, current_size, bytes_freed, max_size) ==
    IF items = <<>> \/ current_size - bytes_freed <= max_size THEN <<>>
    ELSE <<Head(items)>> \o
         EvictLoop(s, Tail(items), current_size,
                   bytes_freed + s.files[Head(items)].file_size, max_size)

Evicted(s, max_size) ==
    IF s.stats.total_size_bytes <= max_size THEN <<>>
    ELSE EvictLoop(s, SortItems(s, FileItems(s)),
                   s.stats.total_size_bytes, 0, max_size)

Enforce ==
    /\ up
    /\ \E ev \in {Evicted(Cur, config.max_cache_size_mb)} :
       \E s \in {RemoveEach(Cur, ev)} :
       /\ Install(s)
       /\ IF ev # <<>> THEN Save(s) ELSE UNCHANGED persisted
       /\ ret' = [Ret("enforce", 0, Len(ev)) EXCEPT !.removed = ev]
    /\ UNCHANGED <<config, now, thr, up, ocfg, ocr, batch, vld, ext, dup, prs, ldr>>

\* ------------------------------------------------------ environment
\* the wall clock advances
Tick ==
    /\ now < MaxTime
    /\ now' = now + 1
    /\ ret' = Ret("tick", 0, 0)
    /\ UNCHANGED <<files, hashes, stats, disk, persisted, config, thr, up, ocfg, ocr, batch, vld, ext, dup, prs, ldr>>

\* a cached blob is deleted from images_dir behind the cache's back
LoseBlob(p) ==
    /\ p \in DOMAIN disk
    /\ disk' = Without(disk, p)
    /\ ret' = Ret("lose", p, 0)
    /\ UNCHANGED <<files, hashes, stats, persisted, config, now, thr, up, ocfg, ocr, batch, vld, ext, dup, prs, ldr>>

\* ------------------------- add_file_to_cache, statement by statement
\* Worker t runs add_file_to_cache; nothing in the class serialises two
\* calls, so the steps of different workers interleave freely.
Workers == {1, 2}

SetThr(t, pc) == thr' = [thr EXCEPT ![t].pc = pc]

\* line 145: file_hash = self.calculate_file_hash(source_path)
PutStart(t, id, c) ==
    /\ up
    /\ thr[t].pc = "idle"
    /\ thr' = [thr EXCEPT ![t] = [pc |-> "hashed", file_id |-> id,
                                  content |-> c, existing |-> 0]]
    /\ UNCHANGED <<files, hashes, stats, disk, persisted, config, now, ret, up, ocfg, ocr, batch, vld, ext, dup, prs, ldr>>

\* lines 148-149: the duplicate check against cache_index['hashes']
PutCheck(t) ==
    /\ up
    /\ thr[t].pc = "hashed"
    /\ LET h == calculate_file_hash(thr[t].content) IN
       IF h \in DOMAIN hashes
       THEN thr' = [thr EXCEPT ![t].pc = "alias", ![t].existing = hashes[h]]
       ELSE thr' = [thr EXCEPT ![t].pc = "copy"]
    /\ UNCHANGED <<files, hashes, stats, disk, persisted, config, now, ret, up, ocfg, ocr, batch, vld, ext, dup, prs, ldr>>

\* lines 153-160: register file_id as a duplicate of existing_file_id
PutAlias(t) ==
    /\ up
    /\ thr[t].pc = "alias"
    /\ files' = With(files, thr[t].file_id,
                     AliasInfo(thr[t].file_id, thr[t].existing,
                               calculate_file_hash(thr[t].content), now))
    /\ SetThr(t, "save")
    /\ UNCHANGED <<hashes, stats, disk, persisted, config, now, ret, up, ocfg, ocr, batch, vld, ext, dup, prs, ldr>>

\* line 169: shutil.copy2(source_path, cache_path)
PutCopy(t) ==
    /\ up
    /\ thr[t].pc = "copy"
    /\ disk' = With(disk, get_cached_file_path(thr[t].file_id), thr[t].content)
    /\ SetThr(t, "index")
    /\ UNCHANGED <<files, hashes, stats, persisted, config, now, ret, up, ocfg, ocr, batch, vld, ext, dup, prs, ldr>>

\* lines 175-190: the new entry, its hash key and the stats
PutIndex(t) ==
    /\ up
    /\ thr[t].pc = "index"
    /\ LET id == thr[t].file_id
           h == calculate_file_hash(thr[t].content)
           size == st_size(thr[t].content) IN
       /\ files' = With(files, id, CacheInfo(id, h, size, now))
       /\ hashes' = With(hashes, h, id)
       /\ stats' = [stats EXCEPT !.total_files = @ + 1,
                                 !.total_size_bytes = @ + size]
    /\ SetThr(t, "save")
    /\ UNCHANGED <<disk, persisted, config, now, ret, up, ocfg, ocr, batch, vld, ext, dup, prs, ldr>>

\* _save_cache_index, line 62: open(index_file, 'w') empties the file
PutSaveOpen(t) ==
    /\ up
    /\ thr[t].pc = "save"
    /\ persisted' = [persisted EXCEPT !.ok = FALSE]
    /\ SetThr(t, "dump")
    /\ UNCHANGED <<files, hashes, stats, disk, config, now, ret, up, ocfg, ocr, batch, vld, ext, dup, prs, ldr>>

\* _save_cache_index, line 63: json.dump; then add_file_to_cache returns True
PutSaveDump(t) ==
    /\ up
    /\ thr[t].pc = "dump"
    /\ Save(Cur)
    /\ ret' = [Ret("put", thr[t].file_id, 1) EXCEPT !.content = thr[t].content]
    /\ thr' = [thr EXCEPT ![t] = Idle]
    /\ UNCHANGED <<files, hashes, stats, disk, config, now, up, ocfg, ocr, batch, vld, ext, dup, prs, ldr>>

InitConc == InitCache(Workers) /\ config.max_cache_size_mb = 1

NextConc ==
    \/ \E t \in Workers, id \in Ids, c \in Contents : PutStart(t, id, c)
    \/ \E t \in Workers : PutCheck(t)
    \/ \E t \in Workers : PutAlias(t)
    \/ \E t \in Workers : PutCopy(t)
    \/ \E t \in Workers : PutIndex(t)
    \/ \E t \in Workers : PutSaveOpen(t)
    \/ \E t \in Workers : PutSaveDump(t)

SpecConc == InitConc /\ [][NextConc]_vars

\* ------------------------------------------------- crash and restart
\* the process dies: everything in memory is lost, the files stay
Crash ==
    /\ up
    /\ up' = FALSE
    /\ files' = EmptyFn
    /\ hashes' = EmptyFn
    /\ stats' = DefaultIndex.stats
    /\ thr' = [t \in DOMAIN thr |-> Idle]
    /\ ret' = Ret("crash", 0, 0)
    /\ UNCHANGED <<disk, persisted, config, now, ocfg, ocr, batch, vld, ext, dup, prs, ldr>>

\* CacheManager.__init__ / _load_cache_index: a readable index file is
\* loaded; an unreadable one reaches self.logger.warning at line 46 before
\* self.logger is assigned at line 37, and the constructor raises
Restart ==
    /\ ~up
    /\ ret.op = "crash"
    /\ IF persisted.ok
       THEN /\ files' = persisted.index.files
            /\ hashes' = persisted.index.hashes
            /\ stats' = persisted.index.stats
            /\ up' = TRUE
            /\ ret' = Ret("restart", 0, 1)
       ELSE /\ UNCHANGED <<files, hashes, stats, up>>
            /\ ret' = Ret("restart", 0, 0)
    /\ UNCHANGED <<disk, persisted, config, now, thr, ocfg, ocr, batch, vld, ext, dup, prs, ldr>>

\* a cache call made between two add_file_to_cache calls of one worker
GetIdle(id) == thr[1].pc = "idle" /\ Get(id)

NextCrash ==
    \/ \E id \in Ids, c \in Contents : PutStart(1, id, c)
    \/ PutCheck(1)
    \/ PutAlias(1)
    \/ PutCopy(1)
    \/ PutIndex(1)
    \/ PutSaveOpen(1)
    \/ PutSaveDump(1)
    \/ \E id \in Ids : GetIdle(id)
    \/ Crash
    \/ Restart

SpecCrash == Init /\ [][NextCrash]_vars

Next ==
    \/ \E id \in Ids, c \in Contents, readable \in BOOLEAN : Put(id, c, readable)
    \/ \E id \in Ids : Get(id)
    \/ \E id \in Ids : Remove(id)
    \/ \E d \in 0..MaxAgeDays : Cleanup(d)
    \/ Enforce
    \/ Tick
    \/ \E p \in Ids : LoseBlob(p)

Spec == Init /\ [][Next]_vars
\* ======================================================= OCREngine
\* Confidences and confidence_threshold are counted in steps of 1/MaxConf.
\* An engine call ends in "error" (success = False, confidence 0.0, or an
\* exception) or in "ok" with a confidence.
Outcomes ==
    {[kind |-> "error", confidence |-> 0]}
        \cup {[kind |-> "ok", confidence |-> c] : c \in 0..MaxConf}

\* the acceptance test with > in place of >=
Accepted_strict(o, threshold) == o.kind = "ok" /\ o.confidence > threshold

\* lines 136 and 158: result['success'] and result['confidence'] >= threshold
Accepted(o, threshold) == o.kind = "ok" /\ o.confidence >= threshold

OcrCall(method, o) == [method |-> method, kind |-> o.kind, confidence |-> o.confidence]

OcrReturn(method, conf) ==
    [pc |-> "done", calls |-> ocr.calls,
     result |-> [success |-> TRUE, method |-> method, confidence |-> conf,
                 text |-> "engine text", error |-> ""]]

\* OCREngine.__init__: GoogleVisionService client or None, _check_tesseract
InitOcr ==
    /\ ocfg \in [vision_available : BOOLEAN, tesseract_available : BOOLEAN,
                 fallback_to_tesseract : BOOLEAN,
                 confidence_threshold : 0..MaxConf]
    /\ ocr = [OcrOff EXCEPT !.pc = "text"]
    /\ files = EmptyFn
    /\ hashes = EmptyFn
    /\ stats = DefaultIndex.stats
    /\ disk = EmptyFn
    /\ persisted = [ok |-> TRUE, index |-> DefaultIndex]
    /\ config = [max_cache_size_mb |-> 1]
    /\ now = 0
    /\ ret = Ret("init", 0, 0)
    /\ thr = [t \in {1} |-> Idle]
    /\ up = FALSE
    /\ batch = BatchOff
    /\ vld = ValOff
    /\ ext = ExtOff
    /\ dup = DupOff
    /\ prs = PrsOff
    /\ ldr = LdrOff

CacheUnchanged ==
    UNCHANGED <<files, hashes, stats, disk, persisted, config, now, ret, thr, up,
                batch, vld, ext, dup, prs, ldr>>

\* lines 131-150: cloud text detection
OcrText(o) ==
    /\ ocr.pc = "text"
    /\ IF ocfg.vision_available
       THEN LET calls == Append(ocr.calls, OcrCall("google_vision", o)) IN
            IF Accepted(o, ocfg.confidence_threshold)
            THEN ocr' = [OcrReturn("google_vision", o.confidence) EXCEPT !.calls = calls]
            ELSE ocr' = [ocr EXCEPT !.pc = "doc", !.calls = calls]
       ELSE ocr' = [ocr EXCEPT !.pc = "doc"]
    /\ UNCHANGED ocfg
    /\ CacheUnchanged

\* document detection whose exception ends the chain with the 'none' result
OcrDoc_abort(o) ==
    /\ ocr.pc = "doc"
    /\ IF ocfg.vision_available
       THEN LET calls == Append(ocr.calls, OcrCall("google_vision_document", o)) IN
            IF Accepted(o, ocfg.confidence_threshold)
            THEN ocr' = [OcrReturn("google_vision_document", o.confidence)
                            EXCEPT !.calls = calls]
            ELSE IF o.kind = "error"
            THEN ocr' = [pc |-> "done", calls |-> calls,
                         result |-> [success |-> FALSE, method |-> "none",
                                     confidence |-> 0,
                                     text |-> "", error |-> "All OCR methods failed"]]
            ELSE ocr' = [ocr EXCEPT !.pc = "tess", !.calls = calls]
       ELSE ocr' = [ocr EXCEPT !.pc = "tess"]
    /\ UNCHANGED ocfg
    /\ CacheUnchanged

\* lines 153-170: cloud document detection
OcrDoc(o) ==
    /\ ocr.pc = "doc"
    /\ IF ocfg.vision_available
       THEN LET calls == Append(ocr.calls, OcrCall("google_vision_document", o)) IN
            IF Accepted(o, ocfg.confidence_threshold)
            THEN ocr' = [OcrReturn("google_vision_document", o.confidence)
                            EXCEPT !.calls = calls]
            ELSE ocr' = [ocr EXCEPT !.pc = "tess", !.calls = calls]
       ELSE ocr' = [ocr EXCEPT !.pc = "tess"]
    /\ UNCHANGED ocfg
    /\ CacheUnchanged

\* the local engine tried whenever it is available
OcrTess_always(o) ==
    /\ ocr.pc = "tess"
    /\ IF ocfg.tesseract_available
       THEN LET calls == Append(ocr.calls, OcrCall("tesseract", o)) IN
            IF o.kind = "ok"
            THEN ocr' = [OcrReturn("tesseract", o.confidence) EXCEPT !.calls = calls]
            ELSE ocr' = [pc |-> "done", calls |-> calls,
                         result |-> [success |-> FALSE, method |-> "none",
                                     confidence |-> 0,
                                     text |-> "", error |-> "All OCR methods failed"]]
       ELSE ocr' = [pc |-> "done", calls |-> ocr.calls,
                    result |-> [success |-> FALSE, method |-> "none",
                                confidence |-> 0,
                                text |-> "", error |-> "All OCR methods failed"]]
    /\ UNCHANGED ocfg
    /\ CacheUnchanged

\* lines 173-199: local engine, then the 'none' result
OcrTess(o) ==
    /\ ocr.pc = "tess"
    /\ IF ocfg.fallback_to_tesseract /\ ocfg.tesseract_available
       THEN LET calls == Append(ocr.calls, OcrCall("tesseract", o)) IN
            IF o.kind = "ok"
            THEN ocr' = [OcrReturn("tesseract", o.confidence) EXCEPT !.calls = calls]
            ELSE ocr' = [pc |-> "done", calls |-> calls,
                         result |-> [success |-> FALSE, method |-> "none",
                                     confidence |-> 0,
                                     text |-> "", error |-> "All OCR methods failed"]]
       ELSE ocr' = [pc |-> "done", calls |-> ocr.calls,
                    result |-> [success |-> FALSE, method |-> "none",
                                confidence |-> 0,
                                text |-> "", error |-> "All OCR methods failed"]]
    /\ UNCHANGED ocfg
    /\ CacheUnchanged

NextOcr ==
    \/ \E o \in Outcomes : OcrText(o)
    \/ \E o \in Outcomes : OcrDoc(o)
    \/ \E o \in Outcomes : OcrTess(o)

SpecOcr == InitOcr /\ [][NextOcr]_vars

\* _perform_ocr is straight-line code run by one thread: it keeps running
SpecOcrFair == SpecOcr /\ WF_vars(NextOcr)

\* ===================================================== batch operations
MaxBatch == 2

\* what OCR and extraction do with one image
ImageOutcomes == {"ok", "error"}

\* what _process_single_drive_file / _process_single_photos_item reports
FileStatuses == {"processed", "skipped", "error"}

RECURSIVE SeqsUpTo(_, _)
SeqsUpTo(S, n) ==
    IF n = 0 THEN {<<>>}
    ELSE LET shorter == SeqsUpTo(S, n - 1) IN
         shorter \cup {Append(q, x) : q \in {r \in shorter : Len(r) = n - 1}, x \in S}

\* process_receipt_image: its own try/except turns every failure into a result
process_receipt_image(image_path, outcome) ==
    IF outcome = "ok"
    THEN [id |-> image_path, success |-> TRUE, error |-> ""]
    ELSE [id |-> image_path, success |-> FALSE, error |-> "failed"]

\* the loop of batch_process_images: one append per path, in order
RECURSIVE batch_loop(_, _, _)
batch_loop(image_paths, i, results) ==
    IF i > Len(image_paths) THEN results
    ELSE batch_loop(image_paths, i + 1,
                    Append(results, process_receipt_image(i, image_paths[i])))

\* _process_single_drive_file: status, ids, cache_path when the file is cached
process_single_file(i, f) ==
    [status |-> f.status, file_id |-> i, ocr |-> f.ocr,
     cache_path |-> IF f.status = "error" THEN NoPath ELSE get_cached_file_path(i)]

\* process_drive_folder / process_photos_album: raises when the source is not
\* found, else returns the summary dict
process_source(source_type, found, listing) ==
    IF ~found THEN [kind |-> "raised", error |-> "ValueError"]
    ELSE LET all == [i \in 1..Len(listing) |-> process_single_file(i, listing[i])]
             processed_files == SelectSeq(all, LAMBDA r : r.status = "processed")
             skipped_files == SelectSeq(all, LAMBDA r : r.status = "skipped")
             error_files == SelectSeq(all, LAMBDA r : r.status \notin {"processed", "skipped"})
         IN [kind |-> "returned",
             error |-> "",
             value |-> [source_type |-> source_type,
                        total_files_found |-> Len(listing),
                        processed_files |-> Len(processed_files),
                        skipped_files |-> Len(skipped_files),
                        error_files |-> Len(error_files),
                        files |-> processed_files,
                        skipped |-> skipped_files,
                        errors |-> error_files]]

\* _process_single_image_ocr: never raises, failure is a result with 'error'
process_single_image_ocr(file_info) ==
    IF file_info.ocr = "ok"
    THEN [id |-> file_info.file_id, success |-> TRUE, error |-> ""]
    ELSE [id |-> file_info.file_id, success |-> FALSE, error |-> "failed"]

\* the loop over basic_results['files']
RECURSIVE ocr_loop(_, _, _)
ocr_loop(processed_files, i, ocr_results) ==
    IF i > Len(processed_files) THEN ocr_results
    ELSE LET file_info == processed_files[i] IN
         IF file_info.status # "processed" \/ file_info.cache_path = NoPath
         THEN ocr_loop(processed_files, i + 1, ocr_results)
         ELSE ocr_loop(processed_files, i + 1,
                       Append(ocr_results, process_single_image_ocr(file_info)))

\* process_drive_folder_with_ocr / process_photos_album_with_ocr after the
\* basic processing: basic_results['success'] is read first
with_ocr(basic) ==
    IF basic.kind = "raised"
    THEN [kind |-> "raised", error |-> basic.error, results |-> <<>>]
    ELSE IF "success" \notin DOMAIN basic.value
    THEN [kind |-> "raised", error |-> "KeyError", results |-> <<>>]
    ELSE IF ~basic.value["success"]
    THEN [kind |-> "returned", error |-> "", results |-> <<>>]
    ELSE [kind |-> "returned", error |-> "",
          results |-> ocr_loop(basic.value.files, 1, <<>>)]

InitBatch ==
    /\ batch = BatchOff
    /\ vld = ValOff
    /\ ext = ExtOff
    /\ dup = DupOff
    /\ prs = PrsOff
    /\ ldr = LdrOff
    /\ files = EmptyFn
    /\ hashes = EmptyFn
    /\ stats = DefaultIndex.stats
    /\ disk = EmptyFn
    /\ persisted = [ok |-> TRUE, index |-> DefaultIndex]
    /\ config = [max_cache_size_mb |-> 1]
    /\ now = 0
    /\ ret = Ret("init", 0, 0)
    /\ thr = [t \in {1} |-> Idle]
    /\ up = FALSE
    /\ ocfg = OcfgOff
    /\ ocr = OcrOff

BatchUnchanged ==
    UNCHANGED <<files, hashes, stats, disk, persisted, config, now, ret, thr, up,
                ocfg, ocr, vld, ext, dup, prs, ldr>>

BatchProcessImages(image_paths) ==
    /\ batch' = [op |-> "batch_process_images", input |-> image_paths,
                 out |-> [kind |-> "returned", error |-> "",
                          results |-> batch_loop(image_paths, 1, <<>>)]]
    /\ BatchUnchanged

ProcessDriveFolderWithOcr(found, listing) ==
    /\ batch' = [op |-> "process_drive_folder_with_ocr", input |-> listing,
                 out |-> with_ocr(process_source("google_drive", found, listing))]
    /\ BatchUnchanged

ProcessPhotosAlbumWithOcr(found, listing) ==
    /\ batch' = [op |-> "process_photos_album_with_ocr", input |-> listing,
                 out |-> with_ocr(process_source("google_photos", found, listing))]
    /\ BatchUnchanged

Listings == SeqsUpTo([status : FileStatuses, ocr : ImageOutcomes], MaxBatch)

NextBatch ==
    \/ \E image_paths \in SeqsUpTo(ImageOutcomes, MaxBatch) : BatchProcessImages(image_paths)
    \/ \E found \in BOOLEAN, listing \in Listings : ProcessDriveFolderWithOcr(found, listing)
    \/ \E found \in BOOLEAN, listing \in Listings : ProcessPhotosAlbumWithOcr(found, listing)

SpecBatch == InitBatch /\ [][NextBatch]_vars

\* ============================================================ validator
\* a score s of the code is the whole number s * Unit here: every product and
\* quotient below is exact
Unit == 4200 * MaxConf
Tenths(n) == n * (Unit \div 10)

\* None for an amount (amounts are whole cents) and for a date (a day number)
NoAmount == -1
NoDate == -1

\* "native": Decimal and date fields, as extract_receipt_data builds them;
\* "dict": the record rebuilt from to_dict() output, amounts and date are str
Forms == {"native", "dict"}

\* bool(amount): a Decimal is true when nonzero, a str when non-empty
Truthy(receipt, amount) ==
    amount # NoAmount /\ (receipt.form = "dict" \/ amount # 0)

Issue(type, severity) == [type |-> type, severity |-> severity]

Stage(raised, score, issues) == [raised |-> raised, score |-> score, issues |-> issues]

\* the regular expressions, on the names drawn here
is_reasonable_merchant_name(name) ==
    name \notin {"total", "subtotal", "tax", "cash"} /\ Len(name) >= 3 /\ Len(name) <= 50

is_valid_phone_format(phone) == phone \in {"555-123-4567", "5551234567"}

is_valid_time_format(time) == time \in {"12:30", "12:30:05", "9:15 pm"}

MaxDaysOld == 3650

\* a str compared with a date raises TypeError
is_reasonable_date_raises(receipt) == receipt.form = "dict"

is_reasonable_date(receipt_date, today) ==
    ~(receipt_date > today) /\ ~(today - receipt_date > MaxDaysOld)

MaxAmountCents == 1000000

\* a str compared with 0 raises TypeError
is_reasonable_amount_raises(receipt) == receipt.form = "dict"

\* whole cents have exponent >= -2
is_reasonable_amount(amount) == ~(amount <= 0) /\ ~(amount > MaxAmountCents)

validate_merchant_info(receipt) ==
    LET name == receipt.merchant_name
        s1 == IF name # "" /\ Len(name) >= 3
              THEN Tenths(5) + (IF is_reasonable_merchant_name(name) THEN Tenths(3) ELSE 0)
              ELSE 0
        issues == IF name = "" THEN <<Issue("missing_merchant_name", "minor")>>
                  ELSE IF Len(name) >= 3 THEN <<>>
                  ELSE <<Issue("merchant_name_too_short", "warning")>>
        s2 == IF receipt.merchant_address # "" /\ Len(receipt.merchant_address) >= 10
              THEN Tenths(1) ELSE 0
        s3 == IF receipt.merchant_phone # "" /\ is_valid_phone_format(receipt.merchant_phone)
              THEN Tenths(1) ELSE 0
        score == s1 + s2 + s3
    IN Stage(FALSE, IF score < Unit THEN score ELSE Unit, issues)

validate_date_time(receipt, today) ==
    IF receipt.date # NoDate /\ is_reasonable_date_raises(receipt)
    THEN Stage(TRUE, 0, <<>>)
    ELSE LET s1 == IF receipt.date = NoDate THEN 0
                   ELSE IF is_reasonable_date(receipt.date, today) THEN Tenths(7)
                   ELSE Tenths(3)
             issues == IF receipt.date = NoDate THEN <<Issue("missing_date", "minor")>>
                       ELSE IF is_reasonable_date(receipt.date, today) THEN <<>>
                       ELSE <<Issue("unreasonable_date", "warning")>>
             s2 == IF receipt.time # "" /\ is_valid_time_format(receipt.time)
                   THEN Tenths(3) ELSE 0
             score == s1 + s2
         IN Stage(FALSE, IF score < Unit THEN score ELSE Unit, issues)

validate_amounts(receipt) ==
    LET total == Truthy(receipt, receipt.total_amount)
        subtotal == Truthy(receipt, receipt.subtotal)
        tax == Truthy(receipt, receipt.tax_amount)
        tip == Truthy(receipt, receipt.tip_amount)
        missing == IF total THEN <<>> ELSE <<Issue("missing_total", "critical")>>
    IN  IF is_reasonable_amount_raises(receipt)
        THEN IF total \/ subtotal \/ tax \/ tip
             THEN Stage(TRUE, 0, missing)
             ELSE Stage(FALSE, 0, missing)
        ELSE LET s1 == IF total /\ is_reasonable_amount(receipt.total_amount)
                       THEN Tenths(5) ELSE 0
                 issues == IF total /\ ~is_reasonable_amount(receipt.total_amount)
                           THEN <<Issue("unreasonable_total", "warning")>>
                           ELSE missing
                 s2 == IF subtotal /\ is_reasonable_amount(receipt.subtotal)
                       THEN Tenths(2) ELSE 0
                 \* tax / subtotal against the floats 0.01 and 0.20: float 0.01
                 \* lies just above 1/100, float 0.20 just above 1/5
                 s3 == IF tax /\ is_reasonable_amount(receipt.tax_amount)
                       THEN Tenths(1) +
                            (IF subtotal /\ 100 * receipt.tax_amount > receipt.subtotal
                                         /\ 5 * receipt.tax_amount <= receipt.subtotal
                             THEN Tenths(1) ELSE 0)
                       ELSE 0
                 s4 == IF tip /\ is_reasonable_amount(receipt.tip_amount)
                       THEN Tenths(1) ELSE 0
                 score == s1 + s2 + s3 + s4
             IN Stage(FALSE, IF score < Unit THEN score ELSE Unit, issues)

\* quantity and unit_price are unset on the items drawn here
item_score(receipt, item) ==
    (IF item.description # "" /\ Len(item.description) >= 3 THEN Tenths(5) ELSE 0)
    + (IF Truthy(receipt, item.total_price) /\ is_reasonable_amount(item.total_price)
       THEN Tenths(3) ELSE 0)

validate_items(receipt) ==
    LET items == receipt.items
        total_items == Len(items)
        valid_items == Cardinality({i \in 1..total_items :
                                        item_score(receipt, items[i]) >= Tenths(5)})
    IN  IF items = <<>> THEN Stage(FALSE, 0, <<Issue("no_items", "minor")>>)
        ELSE IF /\ is_reasonable_amount_raises(receipt)
                /\ \E i \in 1..total_items : Truthy(receipt, items[i].total_price)
        THEN Stage(TRUE, 0, <<>>)
        ELSE Stage(FALSE, (valid_items * Unit) \div total_items, <<>>)

\* sum(item.total_price for item in receipt.items if item.total_price)
RECURSIVE items_total(_, _, _)
items_total(receipt, i, acc) ==
    IF i > Len(receipt.items) THEN acc
    ELSE items_total(receipt, i + 1,
                     IF Truthy(receipt, receipt.items[i].total_price)
                     THEN acc + receipt.items[i].total_price ELSE acc)

Abs(x) == IF x < 0 THEN -x ELSE x

validate_calculations(receipt) ==
    LET first == /\ Truthy(receipt, receipt.subtotal)
                 /\ Truthy(receipt, receipt.tax_amount)
                 /\ Truthy(receipt, receipt.total_amount)
        second == receipt.items # <<>> /\ Truthy(receipt, receipt.subtotal)
        calculated_total ==
            receipt.subtotal + receipt.tax_amount
                + (IF Truthy(receipt, receipt.tip_amount) THEN receipt.tip_amount ELSE 0)
        matches == Abs(calculated_total - receipt.total_amount) < 2
        s1 == IF first /\ matches THEN Tenths(3) ELSE 0
        issues == IF first /\ ~matches
                  THEN <<Issue("total_calculation_error", "warning")>> ELSE <<>>
        s2 == IF second /\ Abs(items_total(receipt, 1, 0) - receipt.subtotal) < 5
              THEN Tenths(2) ELSE 0
        score == Tenths(5) + s1 + s2
    IN  \* str - str and int - str raise TypeError
        IF receipt.form = "dict" /\ (first \/ second) THEN Stage(TRUE, 0, <<>>)
        ELSE Stage(FALSE, IF score < Unit THEN score ELSE Unit, issues)

assess_text_quality(text) ==
    LET score ==
            (IF text.length > 50 THEN 3 ELSE IF text.length > 20 THEN 2 ELSE 0)
            + (IF text.has_letters THEN 3 ELSE 0)
            + (IF text.has_numbers THEN 2 ELSE 0)
            + (IF text.has_punctuation THEN 2 ELSE 0)
    IN IF text.length = 0 THEN 0 ELSE IF score < 10 THEN score ELSE 10

\* confidence_score is the level receipt.confidence_score / MaxConf
validate_data_quality(receipt) ==
    LET s1 == receipt.confidence_score * 4 * (Unit \div (10 * MaxConf))
        fields == (IF receipt.merchant_name # "" THEN 1 ELSE 0)
                  + (IF receipt.date # NoDate THEN 1 ELSE 0)
                  + (IF Truthy(receipt, receipt.total_amount) THEN 1 ELSE 0)
                  + (IF Truthy(receipt, receipt.subtotal) THEN 1 ELSE 0)
                  + (IF Truthy(receipt, receipt.tax_amount) THEN 1 ELSE 0)
                  + (IF receipt.items # <<>> THEN 1 ELSE 0)
                  + (IF receipt.payment_method # "" THEN 1 ELSE 0)
        s2 == fields * 3 * (Unit \div 70)
        s3 == assess_text_quality(receipt.raw_text) * 3 * (Unit \div 100)
        score == s1 + s2 + s3
    IN Stage(FALSE, IF score < Unit THEN score ELSE Unit, <<>>)

Categories ==
    <<"merchant", "date_time", "amounts", "items", "calculations", "data_quality">>

\* the weights, in hundredths
Weights ==
    [amounts |-> 30, calculations |-> 25, merchant |-> 15, items |-> 15,
     date_time |-> 10, data_quality |-> 5]

RECURSIVE SumOver(_, _)
SumOver(f, S) ==
    IF S = {} THEN 0
    ELSE LET c == CHOOSE x \in S : TRUE IN f[c] + SumOver(f, S \ {c})

\* the weighted sum divided by the weights of five of the six categories
calculate_overall_confidence_short(validation_scores) ==
    LET present == DOMAIN Weights \cap DOMAIN validation_scores
        weighted_score == SumOver([c \in present |-> validation_scores[c] * Weights[c]], present)
        total_weight == SumOver(Weights, present \ {"data_quality"})
    IN IF total_weight > 0 THEN (weighted_score * 100) \div total_weight ELSE 0

\* the overall confidence c of the code is the whole number c * 100 * Unit
calculate_overall_confidence(validation_scores) ==
    LET present == DOMAIN Weights \cap DOMAIN validation_scores
        weighted_score == SumOver([c \in present |-> validation_scores[c] * Weights[c]], present)
        total_weight == SumOver(Weights, present)
    IN IF total_weight > 0 THEN (weighted_score * 100) \div total_weight ELSE 0

Critical(issues) == {i \in 1..Len(issues) : issues[i].severity = "critical"}

\* validity decided by the confidence alone
is_valid_by_confidence(overall_confidence, issues, min_confidence_threshold) ==
    overall_confidence >= min_confidence_threshold * Unit

\* lines 55-58; min_confidence_threshold is in hundredths
is_valid(overall_confidence, issues, min_confidence_threshold) ==
    /\ overall_confidence >= min_confidence_threshold * Unit
    /\ Cardinality(Critical(issues)) = 0

RECURSIVE IssuesOf(_, _)
IssuesOf(stages, n) ==
    IF n = 0 THEN <<>> ELSE IssuesOf(stages, n - 1) \o stages[n].issues

\* validation_result before any check has run
NoResult ==
    [is_valid |-> FALSE, confidence_score |-> 0, validation_scores |-> EmptyFn,
     issues |-> <<>>]

validate_receipt(receipt, today, min_confidence_threshold) ==
    LET stages == <<validate_merchant_info(receipt),
                    validate_date_time(receipt, today),
                    validate_amounts(receipt),
                    validate_items(receipt),
                    validate_calculations(receipt),
                    validate_data_quality(receipt)>>
        raising == {k \in 1..6 : stages[k].raised}
        \* the first check that raises ends the try block
        ran == IF raising = {} THEN 6
               ELSE CHOOSE k \in raising : \A j \in raising : k <= j
        scored == IF raising = {} THEN 1..6 ELSE 1..(ran - 1)
        validation_scores ==
            [c \in {Categories[k] : k \in scored} |->
                stages[CHOOSE k \in scored : Categories[k] = c].score]
        issues == IssuesOf(stages, ran)
        overall_confidence == calculate_overall_confidence(validation_scores)
    IN  IF raising = {}
        THEN [is_valid |-> is_valid(overall_confidence, issues, min_confidence_threshold),
              confidence_score |-> overall_confidence,
              validation_scores |-> validation_scores,
              issues |-> issues]
        ELSE [is_valid |-> FALSE,
              confidence_score |-> 0,
              validation_scores |-> validation_scores,
              issues |-> Append(issues, Issue("validation_error", "critical"))]

\* ------------------------------------------------ records to validate
NoText == [length |-> 0, has_letters |-> FALSE, has_numbers |-> FALSE,
           has_punctuation |-> FALSE]

Headers ==
    {[merchant_name |-> "", merchant_address |-> "", merchant_phone |-> "",
      payment_method |-> "", raw_text |-> NoText],
     [merchant_name |-> "ab", merchant_address |-> "1 Main St", merchant_phone |-> "12345",
      payment_method |-> "",
      raw_text |-> [length |-> 30, has_letters |-> TRUE, has_numbers |-> TRUE,
                    has_punctuation |-> FALSE]],
     [merchant_name |-> "Acme Store", merchant_address |-> "12 Main Street, Springfield",
      merchant_phone |-> "555-123-4567", payment_method |-> "visa",
      raw_text |-> [length |-> 120, has_letters |-> TRUE, has_numbers |-> TRUE,
                    has_punctuation |-> TRUE]]}

ReceiptDay == 4000

DateTimes ==
    {[date |-> NoDate, time |-> ""], [date |-> ReceiptDay, time |-> ""],
     [date |-> ReceiptDay, time |-> "12:30"]}

\* date.today(): before the receipt's date, shortly after it, over ten years after
Days == {3000, 4100, 8000}

Totals == {NoAmount, 0, 1080, 1082}
Subtotals == {NoAmount, 1000}
Taxes == {NoAmount, 0, 80}
Tips == {NoAmount, 100}

ItemLists ==
    {<<>>,
     <<[description |-> "Coffee", total_price |-> 1000]>>,
     <<[description |-> "Coffee", total_price |-> 1000],
       [description |-> "x", total_price |-> NoAmount]>>}

\* ReceiptValidator's default and ProcessingConfig.confidence_threshold
Thresholds == {60, 80}

Receipts ==
    {[merchant_name |-> h.merchant_name, merchant_address |-> h.merchant_address,
      merchant_phone |-> h.merchant_phone, payment_method |-> h.payment_method,
      raw_text |-> h.raw_text, date |-> dt.date, time |-> dt.time,
      total_amount |-> total, subtotal |-> subtotal, tax_amount |-> tax,
      tip_amount |-> tip, items |-> items, confidence_score |-> c, form |-> form] :
        h \in Headers, dt \in DateTimes, total \in Totals, subtotal \in Subtotals,
        tax \in Taxes, tip \in Tips, items \in ItemLists, c \in 0..MaxConf,
        form \in Forms}

InitVal ==
    /\ vld \in [pc : {"new"}, receipt : Receipts, min_confidence_threshold : Thresholds,
                today : {3000}, result : {NoResult}]
    /\ ext = ExtOff
    /\ dup = DupOff
    /\ prs = PrsOff
    /\ ldr = LdrOff
    /\ batch = BatchOff
    /\ files = EmptyFn
    /\ hashes = EmptyFn
    /\ stats = DefaultIndex.stats
    /\ disk = EmptyFn
    /\ persisted = [ok |-> TRUE, index |-> DefaultIndex]
    /\ config = [max_cache_size_mb |-> 1]
    /\ now = 0
    /\ ret = Ret("init", 0, 0)
    /\ thr = [t \in {1} |-> Idle]
    /\ up = FALSE
    /\ ocfg = OcfgOff
    /\ ocr = OcrOff

ValUnchanged ==
    UNCHANGED <<files, hashes, stats, disk, persisted, config, now, ret, thr, up,
                ocfg, ocr, batch, ext, dup, prs, ldr>>

\* validate_receipt(receipt), at the current date
Validate ==
    /\ vld.pc \in {"new", "done"}
    /\ vld' = [vld EXCEPT !.pc = "done",
                          !.result = validate_receipt(vld.receipt, vld.today,
                                                      vld.min_confidence_threshold)]
    /\ ValUnchanged

\* the wall clock moves on
Clock(day) ==
    /\ vld.pc \in {"new", "done"}
    /\ day > vld.today
    /\ vld' = [vld EXCEPT !.today = day]
    /\ ValUnchanged

NextVal ==
    \/ Validate
    \/ \E day \in Days : Clock(day)

SpecVal == InitVal /\ [][NextVal]_vars

\* ============================================================ extractor
MaxLines == 3

\* a line "<label>: <whole>.<frac>" of the text; labels are character sequences
Labels == {<<"S", "u", "b", "t", "o", "t", "a", "l">>,
           <<"T", "a", "x">>,
           <<"T", "o", "t", "a", "l">>,
           <<"T", "i", "p">>}

Printed == {[whole |-> 10, frac |-> 0], [whole |-> 0, frac |-> 80],
            [whole |-> 10, frac |-> 80]}

Lines == [label : Labels, amount : Printed]

\* re.IGNORECASE on the letters drawn here
Lower(ch) == IF ch = "S" THEN "s" ELSE IF ch = "T" THEN "t" ELSE ch

LowerSeq(q) == [i \in 1..Len(q) |-> Lower(q[i])]

\* the keyword alternatives of each compiled pattern, in list order
total_patterns ==
    <<{<<"t", "o", "t", "a", "l">>,
       <<"a", "m", "o", "u", "n", "t", " ", "d", "u", "e">>,
       <<"b", "a", "l", "a", "n", "c", "e", " ", "d", "u", "e">>,
       <<"g", "r", "a", "n", "d", " ", "t", "o", "t", "a", "l">>},
      {<<"t", "o", "t", "a", "l">>}>>

subtotal_patterns ==
    <<{<<"s", "u", "b", "t", "o", "t", "a", "l">>,
       <<"s", "u", "b", " ", "t", "o", "t", "a", "l">>,
       <<"s", "u", "b", "-", "t", "o", "t", "a", "l">>},
      {<<"s", "u", "b", "t", "o", "t", "a", "l">>}>>

tax_patterns ==
    <<{<<"t", "a", "x">>,
       <<"s", "a", "l", "e", "s", " ", "t", "a", "x">>,
       <<"v", "a", "t">>},
      {<<"t", "a", "x">>}>>

tip_patterns ==
    <<{<<"t", "i", "p">>,
       <<"g", "r", "a", "t", "u", "i", "t", "y">>}>>

\* keyword[:\s]*\$?(\d+\.\d{2}) matches in "<label>: <amount>" exactly when the
\* keyword ends the label: the characters before it are free
MatchesLine(pattern, line) ==
    \E keyword \in pattern :
        /\ Len(keyword) <= Len(line.label)
        /\ SubSeq(LowerSeq(line.label), Len(line.label) - Len(keyword) + 1,
                  Len(line.label)) = keyword

\* Decimal(amount_str)
ToCents(printed) == 100 * printed.whole + printed.frac

\* pattern.search(text): the leftmost match
search(pattern, text) ==
    LET hits == {i \in 1..Len(text) : MatchesLine(pattern, text[i])} IN
    IF hits = {} THEN 0 ELSE CHOOSE i \in hits : \A j \in hits : i <= j

RECURSIVE extract_amount(_, _, _)
extract_amount(text, patterns, k) ==
    IF k > Len(patterns) THEN NoAmount
    ELSE IF search(patterns[k], text) # 0
    THEN ToCents(text[search(patterns[k], text)].amount)
    ELSE extract_amount(text, patterns, k + 1)

\* every line here matches ^(.+?)\s+\$?(\d+\.\d{2})$ : description, price
extract_items(text) ==
    [i \in 1..Len(text) |->
        [description |-> Append(text[i].label, ":"),
         total_price |-> ToCents(text[i].amount)]]

\* the amounts and items of extract_receipt_data(text)
extract_receipt_data(text) ==
    [total_amount |-> extract_amount(text, total_patterns, 1),
     subtotal |-> extract_amount(text, subtotal_patterns, 1),
     tax_amount |-> extract_amount(text, tax_patterns, 1),
     tip_amount |-> extract_amount(text, tip_patterns, 1),
     items |-> extract_items(text),
     form |-> "native"]

InitExtract ==
    /\ ext = [pc |-> "new", text |-> <<>>, receipt |-> extract_receipt_data(<<>>),
              calculations |-> 0]
    /\ vld = ValOff
    /\ batch = BatchOff
    /\ files = EmptyFn
    /\ hashes = EmptyFn
    /\ stats = DefaultIndex.stats
    /\ disk = EmptyFn
    /\ persisted = [ok |-> TRUE, index |-> DefaultIndex]
    /\ config = [max_cache_size_mb |-> 1]
    /\ now = 0
    /\ ret = Ret("init", 0, 0)
    /\ thr = [t \in {1} |-> Idle]
    /\ up = FALSE
    /\ ocfg = OcfgOff
    /\ ocr = OcrOff
    /\ dup = DupOff
    /\ prs = PrsOff
    /\ ldr = LdrOff

\* extract_receipt_data(text), then the validator's calculations check
Extract(text) ==
    /\ ext.pc = "new"
    /\ ext' = [pc |-> "done", text |-> text, receipt |-> extract_receipt_data(text),
               calculations |-> validate_calculations(extract_receipt_data(text)).score]
    /\ UNCHANGED <<files, hashes, stats, disk, persisted, config, now, ret, thr, up,
                   ocfg, ocr, batch, vld, dup, prs, ldr>>

NextExtract == \E text \in SeqsUpTo(Lines, MaxLines) : Extract(text)

SpecExtract == InitExtract /\ [][NextExtract]_vars

\* ==================================================== duplicate detector
\* every variable of the sections above at rest
QuietCore ==
    /\ files = EmptyFn
    /\ hashes = EmptyFn
    /\ stats = DefaultIndex.stats
    /\ disk = EmptyFn
    /\ persisted = [ok |-> TRUE, index |-> DefaultIndex]
    /\ config = [max_cache_size_mb |-> 1]
    /\ now = 0
    /\ ret = Ret("init", 0, 0)
    /\ thr = [t \in {1} |-> Idle]
    /\ up = FALSE
    /\ ocfg = OcfgOff
    /\ ocr = OcrOff
    /\ batch = BatchOff
    /\ vld = ValOff
    /\ ext = ExtOff

CoreUnchanged ==
    UNCHANGED <<files, hashes, stats, disk, persisted, config, now, ret, thr, up,
                ocfg, ocr, batch, vld, ext>>

\* hash_size = 8: the hashers threshold an 8 x 8 matrix
hash_size == 8
HashBits == hash_size * hash_size

\* similarities are kept in 1/SimUnit: 1.0 is SimUnit, one bit of 64 is 100
SimUnit == 6400

\* the cells of the flattened matrix that the sampled images set: cells 1..4
\* make the leading hex digit, cell 5 is in the second, cell 64 is the last
FlipBits == {1, 4, 5, 64}
BitArrays == {[i \in 1..HashBits |-> IF i \in S THEN 1 ELSE 0] : S \in SUBSET FlipBits}

\* hex(int(binary_string, 2))[2:] : the hex digits, most significant first,
\* without leading zero digits ("0" for the all-zero matrix)
binary_array_to_hex(binary_array) ==
    LET n == HashBits \div 4
        digits == [d \in 1..n |-> 8 * binary_array[4*d - 3] + 4 * binary_array[4*d - 2]
                                  + 2 * binary_array[4*d - 1] + binary_array[4*d]]
        lead == {d \in 1..n : digits[d] # 0}
    IN IF lead = {} THEN <<0>>
       ELSE LET f == CHOOSE d \in lead : \A e \in lead : d <= e
            IN SubSeq(digits, f, n)

\* digit of int(h, 16) at 16^(p-1)
HexDigit(h, p) == IF p <= Len(h) THEN h[Len(h) + 1 - p] ELSE 0

\* bin(a ^ b).count('1') for two hex digits
PopXor(a, b) == Cardinality({k \in 0..3 : ((a \div 2^k) % 2) # ((b \div 2^k) % 2)})

RECURSIVE hamming_distance(_, _, _)
hamming_distance(h1, h2, p) ==
    IF p = 0 THEN 0
    ELSE PopXor(HexDigit(h1, p), HexDigit(h2, p)) + hamming_distance(h1, h2, p - 1)

Max2(a, b) == IF a >= b THEN a ELSE b
Min2(a, b) == IF a <= b THEN a ELSE b

\* string-wise comparison of the hex digits from the left
calculate_hash_similarity_leftaligned(hash1, hash2) ==
    LET n == Max2(Len(hash1), Len(hash2))
        L(h, p) == IF p <= Len(h) THEN h[p] ELSE 0
        dist == Cardinality({<<p, k>> \in (1..n) \X (0..3) :
                    ((L(hash1, p) \div 2^k) % 2) # ((L(hash2, p) \div 2^k) % 2)})
    IN Max2(0, Min2(SimUnit, SimUnit - (SimUnit \div 64) * dist))
calculate_hash_similarity(hash1, hash2) ==
    LET max_distance == 64
        dist == hamming_distance(hash1, hash2, Max2(Len(hash1), Len(hash2)))
    IN Max2(0, Min2(SimUnit, SimUnit - (SimUnit \div max_distance) * dist))

\* an image file of the batch: the matrix its perceptual hash thresholds and
\* its (uniform) grey level; or a cache path that does not exist; or a file
\* cv2 cannot read
Missing == [file |-> "missing", ones |-> {}, grey |-> 0]
Unreadable == [file |-> "unreadable", ones |-> {}, grey |-> 0]
Pictures ==
    {[file |-> "image", ones |-> S[1], grey |-> S[2]] :
        S \in {<<{}, 0>>, <<{}, 2>>, <<{64}, 0>>, <<{1, 4, 5, 64}, 0>>, <<{5}, 1>>}}
BatchImages == Pictures \cup {Missing, Unreadable}

calculate_image_hash(image) ==
    binary_array_to_hex([i \in 1..HashBits |-> IF i \in image.ones THEN 1 ELSE 0])

\* mse == 0 gives 1.0; grey levels one apart give psnr 48.13 and 0.9626,
\* two apart psnr 42.11 and 0.8422
compare_images_structural(image1, image2) ==
    LET d == IF image1.grey >= image2.grey THEN image1.grey - image2.grey
             ELSE image2.grey - image1.grey
    IN IF d = 0 THEN SimUnit ELSE IF d = 1 THEN 6161 ELSE 5390

\* file_hashes: the items whose path exists and whose hash was computed, in
\* insertion order
file_hashes(file_info_list) ==
    SelectSeq(file_info_list, LAMBDA f : f.image \notin {Missing, Unreadable})

\* the body of the two loops for the pair (i, j)
compare_pair_structural_only(fh, i, j, threshold) ==
    LET similarity == calculate_hash_similarity(calculate_image_hash(fh[i].image),
                                                calculate_image_hash(fh[j].image))
        structural_sim == compare_images_structural(fh[i].image, fh[j].image)
    IN IF similarity >= threshold
       THEN [structural |-> {<<fh[i].file_id, fh[j].file_id>>},
             duplicates |-> IF structural_sim >= threshold
                            THEN <<[file_id_1 |-> fh[i].file_id, file_id_2 |-> fh[j].file_id,
                                    similarity_score |-> structural_sim,
                                    method |-> "phash+structural"]>>
                            ELSE <<>>]
       ELSE [structural |-> {}, duplicates |-> <<>>]
compare_pair(fh, i, j, threshold) ==
    LET similarity == calculate_hash_similarity(calculate_image_hash(fh[i].image),
                                                calculate_image_hash(fh[j].image))
        structural_sim == compare_images_structural(fh[i].image, fh[j].image)
        final_similarity == Max2(similarity, structural_sim)
    IN IF similarity >= threshold
       THEN [structural |-> {<<fh[i].file_id, fh[j].file_id>>},
             duplicates |-> IF final_similarity >= threshold
                            THEN <<[file_id_1 |-> fh[i].file_id, file_id_2 |-> fh[j].file_id,
                                    similarity_score |-> final_similarity,
                                    method |-> "phash+structural"]>>
                            ELSE <<>>]
       ELSE [structural |-> {}, duplicates |-> <<>>]

\* for i in range(len(file_ids)): for j in range(i + 1, len(file_ids))
RECURSIVE compare_all(_, _, _, _)
compare_all(fh, i, j, threshold) ==
    IF i > Len(fh) THEN [structural |-> {}, duplicates |-> <<>>]
    ELSE IF j > Len(fh) THEN compare_all(fh, i + 1, i + 2, threshold)
    ELSE LET here == compare_pair(fh, i, j, threshold)
             rest == compare_all(fh, i, j + 1, threshold)
         IN [structural |-> here.structural \cup rest.structural,
             duplicates |-> here.duplicates \o rest.duplicates]

find_duplicates_in_batch(file_info_list, threshold) ==
    compare_all(file_hashes(file_info_list), 1, 2, threshold)

\* get_duplicate_groups: the adjacency list
graph(duplicate_matches) ==
    LET all_files == UNION {{duplicate_matches[k].file_id_1, duplicate_matches[k].file_id_2} :
                            k \in 1..Len(duplicate_matches)}
    IN [f \in all_files |->
           {duplicate_matches[k].file_id_2 : k \in {m \in 1..Len(duplicate_matches) :
                                                    duplicate_matches[m].file_id_1 = f}}
           \cup {duplicate_matches[k].file_id_1 : k \in {m \in 1..Len(duplicate_matches) :
                                                         duplicate_matches[m].file_id_2 = f}}]

\* the order in which a set of file ids is iterated
RECURSIVE Iter(_)
Iter(S) ==
    IF S = {} THEN <<>>
    ELSE LET m == CHOOSE x \in S : \A y \in S : x <= y
         IN <<m>> \o Iter(S \ {m})

RECURSIVE dfs(_, _, _, _)
RECURSIVE dfs_neighbors(_, _, _, _)
\* a traversal that takes the direct neighbours only
dfs_direct(g, node, visited, current_group) ==
    IF node \in visited THEN [visited |-> visited, group |-> current_group]
    ELSE [visited |-> visited \cup {node} \cup g[node],
          group |-> Append(current_group, node) \o Iter(g[node] \ (visited \cup {node}))]
dfs(g, node, visited, current_group) ==
    IF node \in visited THEN [visited |-> visited, group |-> current_group]
    ELSE dfs_neighbors(g, Iter(g[node]), visited \cup {node}, Append(current_group, node))

\* for neighbor in graph.get(node, []): dfs(neighbor, current_group)
dfs_neighbors(g, neighbors, visited, current_group) ==
    IF neighbors = <<>> THEN [visited |-> visited, group |-> current_group]
    ELSE LET r == dfs(g, Head(neighbors), visited, current_group)
         IN dfs_neighbors(g, Tail(neighbors), r.visited, r.group)

\* for file_id in all_files: a new traversal from every unvisited id
RECURSIVE components(_, _, _)
components(g, todo, visited) ==
    IF todo = <<>> THEN <<>>
    ELSE IF Head(todo) \in visited THEN components(g, Tail(todo), visited)
    ELSE LET r == dfs(g, Head(todo), visited, <<>>)
         IN (IF Len(r.group) > 1 THEN <<r.group>> ELSE <<>>)
            \o components(g, Tail(todo), r.visited)

get_duplicate_groups(duplicate_matches) ==
    components(graph(duplicate_matches), Iter(DOMAIN graph(duplicate_matches)), {})

\* inputs
MaxItems == 3
MaxMatches == 3
FileIds == 1..4
DupThresholds == {6080, 6400}
\* the batch items carry the ids 1, 2, ... of distinct files
BatchLists ==
    {[i \in 1..Len(q) |-> [file_id |-> i, image |-> q[i]]] : q \in SeqsUpTo(BatchImages, MaxItems)}
\* matches between four files, in either orientation, and a file matched with itself
MatchPairs ==
    {[file_id_1 |-> a, file_id_2 |-> b] : a \in FileIds, b \in FileIds} \cap
    {[file_id_1 |-> a[1], file_id_2 |-> a[2]] :
        a \in {<<1, 2>>, <<1, 3>>, <<1, 4>>, <<2, 3>>, <<2, 4>>, <<3, 4>>, <<2, 1>>, <<3, 3>>}}
MatchLists == SeqsUpTo(MatchPairs, MaxMatches)

InitDup ==
    /\ dup = [op |-> "idle"]
    /\ prs = PrsOff
    /\ ldr = LdrOff
    /\ QuietCore

DupUnchanged == CoreUnchanged /\ UNCHANGED <<prs, ldr>>

\* two images are hashed and their fingerprints compared
HashSimilarity(a, b) ==
    /\ dup.op = "idle"
    /\ dup' = [op |-> "similarity", a |-> a, b |-> b,
               hash1 |-> binary_array_to_hex(a), hash2 |-> binary_array_to_hex(b),
               out |-> calculate_hash_similarity(binary_array_to_hex(a), binary_array_to_hex(b))]
    /\ DupUnchanged

FindDuplicatesInBatch(file_info_list, threshold) ==
    /\ dup.op = "idle"
    /\ dup' = [op |-> "find", batch |-> file_info_list, threshold |-> threshold,
               out |-> find_duplicates_in_batch(file_info_list, threshold)]
    /\ DupUnchanged

GetDuplicateGroups(duplicate_matches) ==
    /\ dup.op = "idle"
    /\ dup' = [op |-> "groups", matches |-> duplicate_matches,
               out |-> get_duplicate_groups(duplicate_matches)]
    /\ DupUnchanged

NextDup ==
    \/ \E a, b \in BitArrays : HashSimilarity(a, b)
    \/ \E q \in BatchLists, t \in DupThresholds : FindDuplicatesInBatch(q, t)
    \/ \E m \in MatchLists : GetDuplicateGroups(m)

SpecDup == InitDup /\ [][NextDup]_vars

\* ========================================================= receipt parser
\* A line of OCR text: a word, then (when printed) an amount P.PP in cents and
\* a tax code. No line here carries a 12-digit UPC, a quantity or a '$', so
\* the patterns that need one never match and are left out; no word is made
\* of capitals only next to a line without a full stop, so no [A-Z0-9\s]+
\* group runs over a line break.
TextLine(word, amount, code) == [word |-> word, amount |-> amount, code |-> code]
ParserLines ==
    {TextLine("Walmart Supercenter", NoAmount, ""), TextLine("Starbucks", NoAmount, ""),
     TextLine("MILK", 250, ""), TextLine("Milk", 300, ""), TextLine("MILK", 250, "T"),
     TextLine("TOTAL", 1000, ""), TextLine("SUBTOTAL", 800, ""),
     TextLine("TAX", 80, ""), TextLine("TIP", 100, "")}

\* str.lower()
LowerWord(w) ==
    CASE w = "Walmart Supercenter" -> "walmart supercenter"
      [] w = "Starbucks" -> "starbucks"
      [] w \in {"MILK", "Milk"} -> "milk"
      [] w = "milk " -> "milk "
      [] w = "TOTAL" -> "total"
      [] w = "SUBTOTAL" -> "subtotal"
      [] w = "TAX" -> "tax"
      [] w = "TIP" -> "tip"

\* str.strip() of a lowered word
Strip(w) == IF w = "milk " THEN "milk" ELSE w

\* a in b, for a lowered description a and a lowered line b = word, blank, amount
InLine(a, line) ==
    \/ Strip(a) = LowerWord(line.word) /\ (a = Strip(a) \/ line.amount # NoAmount)
    \/ a = "total" /\ LowerWord(line.word) = "subtotal"

\* [A-Z0-9\s]+ matches the whole word
CapitalsOnly(w) == w \in {"MILK", "TOTAL", "SUBTOTAL", "TAX", "TIP"}

\* merchant_templates, in dict order; target, costco and grocery have no
\* name pattern that matches a word drawn here
identify_merchant_type(text) ==
    IF \E i \in 1..Len(text) : LowerWord(text[i].word) = "walmart supercenter" THEN "walmart"
    ELSE IF \E i \in 1..Len(text) : LowerWord(text[i].word) = "starbucks" THEN "restaurant"
    ELSE "None"

\* template['item_patterns'][k] matches the line
item_pattern_matches(merchant_type, line) ==
    IF merchant_type = "walmart"
    THEN CapitalsOnly(line.word) /\ line.amount # NoAmount /\ line.code = "T"
    ELSE line.amount # NoAmount /\ line.code = ""

\* _parse_merchant_item on a match of that pattern
parse_merchant_item(line, merchant_type) ==
    [description |-> line.word, total_price |-> line.amount,
     confidence |-> IF merchant_type = "walmart" THEN 90 ELSE 80]

RECURSIVE merchant_items(_, _)
merchant_items(text, merchant_type) ==
    IF text = <<>> THEN <<>>
    ELSE (IF item_pattern_matches(merchant_type, Head(text))
          THEN <<parse_merchant_item(Head(text), merchant_type)>> ELSE <<>>)
         \o merchant_items(Tail(text), merchant_type)

\* pattern.search(text) for 'total\s*(\d+\.\d{2})', 'tax...', 'tip...', IGNORECASE:
\* the amount of the first line whose word ends with the keyword
RECURSIVE pattern_search(_, _)
pattern_search(keyword, text) ==
    IF text = <<>> THEN NoAmount
    ELSE IF /\ Head(text).amount # NoAmount
            /\ \/ LowerWord(Head(text).word) = keyword
               \/ keyword = "total" /\ LowerWord(Head(text).word) = "subtotal"
         THEN Head(text).amount
         ELSE pattern_search(keyword, Tail(text))

Overwrite(old, found) == IF found # NoAmount THEN found ELSE old

\* the template's items assigned whether or not any was found
apply_merchant_template_always(text, receipt, merchant_type) ==
    [receipt EXCEPT
        !.items = merchant_items(text, merchant_type),
        !.total_amount = Overwrite(@, pattern_search("total", text)),
        !.tax_amount = IF merchant_type = "walmart"
                       THEN Overwrite(@, pattern_search("tax", text)) ELSE @,
        !.tip_amount = IF merchant_type = "restaurant"
                       THEN Overwrite(@, pattern_search("tip", text)) ELSE @]
apply_merchant_template(text, receipt, merchant_type) ==
    [receipt EXCEPT
        !.items = IF merchant_items(text, merchant_type) # <<>>
                  THEN merchant_items(text, merchant_type) ELSE @,
        !.total_amount = Overwrite(@, pattern_search("total", text)),
        !.tax_amount = IF merchant_type = "walmart"
                       THEN Overwrite(@, pattern_search("tax", text)) ELSE @,
        !.tip_amount = IF merchant_type = "restaurant"
                       THEN Overwrite(@, pattern_search("tip", text)) ELSE @]

is_valid_item_description(description) ==
    LowerWord(description) \notin {"total", "subtotal", "tax"}

\* '^([A-Za-z][A-Za-z\s\-&\'\.]+)\s+\$?(\d+\.\d{2})$' on the line
try_additional_patterns(line) ==
    IF line.amount # NoAmount /\ line.code = "" /\ is_valid_item_description(line.word)
    THEN <<[description |-> line.word, total_price |-> line.amount, confidence |-> 70]>>
    ELSE <<>>

\* the exact description as the key
RECURSIVE deduplicate_items_exact(_, _)
deduplicate_items_exact(items, seen_descriptions) ==
    IF items = <<>> THEN <<>>
    ELSE IF Head(items).description \in seen_descriptions
         THEN deduplicate_items_exact(Tail(items), seen_descriptions)
         ELSE <<Head(items)>>
              \o deduplicate_items_exact(Tail(items), seen_descriptions \cup {Head(items).description})
RECURSIVE deduplicate_items(_, _)
deduplicate_items(items, seen_descriptions) ==
    LET description_key == Strip(LowerWord(Head(items).description))
    IN IF items = <<>> THEN <<>>
       ELSE IF description_key \in seen_descriptions
            THEN deduplicate_items(Tail(items), seen_descriptions)
            ELSE <<Head(items)>>
                 \o deduplicate_items(Tail(items), seen_descriptions \cup {description_key})

\* the loop of _enhance_item_parsing: lines not yet captured by an item
RECURSIVE add_missed_items(_, _)
add_missed_items(lines, enhanced_items) ==
    IF lines = <<>> THEN enhanced_items
    ELSE IF \E k \in 1..Len(enhanced_items) :
               InLine(LowerWord(enhanced_items[k].description), Head(lines))
         THEN add_missed_items(Tail(lines), enhanced_items)
         ELSE add_missed_items(Tail(lines), enhanced_items \o try_additional_patterns(Head(lines)))

enhance_item_parsing(text, existing_items) ==
    deduplicate_items(add_missed_items(text, existing_items), {})

\* _validate_and_correct only logs; on a record rebuilt from to_dict() output
\* its arithmetic and its date comparison raise TypeError
validate_and_correct_raises(receipt) ==
    /\ receipt.form = "dict"
    /\ \/ /\ Truthy(receipt, receipt.subtotal) /\ Truthy(receipt, receipt.tax_amount)
          /\ Truthy(receipt, receipt.total_amount)
       \/ receipt.items # <<>> /\ Truthy(receipt, receipt.subtotal)
       \/ receipt.date # NoDate

RECURSIVE parser_items_total(_)
parser_items_total(items) ==
    IF items = <<>> THEN 0
    ELSE (IF Head(items).total_price \notin {NoAmount, 0} THEN Head(items).total_price ELSE 0)
         + parser_items_total(Tail(items))

\* in thousandths
calculate_enhanced_confidence(receipt) ==
    LET merchant == IF receipt.merchant_name # "" THEN 200 ELSE 0
        completeness ==
            (IF receipt.date # NoDate THEN 200 ELSE 0)
            + (IF Truthy(receipt, receipt.total_amount) THEN 300 ELSE 0)
            + (IF receipt.items # <<>> THEN 300 ELSE 0)
            + (IF Truthy(receipt, receipt.tax_amount) THEN 100 ELSE 0)
            + (IF receipt.merchant_name # "" THEN 100 ELSE 0)
        totals_add_up ==
            /\ Truthy(receipt, receipt.subtotal) /\ Truthy(receipt, receipt.tax_amount)
            /\ Truthy(receipt, receipt.total_amount)
            /\ receipt.subtotal + receipt.tax_amount - receipt.total_amount \in {-1, 0, 1}
        items_match ==
            /\ receipt.items # <<>> /\ Truthy(receipt, receipt.subtotal)
            /\ parser_items_total(receipt.items) - receipt.subtotal \in {-1, 0, 1}
        validation_score ==
            500 + (IF totals_add_up THEN 300 ELSE 0) + (IF items_match THEN 200 ELSE 0)
    IN Min2(1000, (receipt.confidence_score * 4) \div 10 + merchant
                  + (completeness * 3) \div 10 + Min2(validation_score, 1000) \div 10)

\* enhanced_receipt and basic_receipt are one object: what the except branch
\* returns is the record as the steps before the failure left it
parse_receipt_advanced(text, basic_receipt) ==
    LET merchant_type == identify_merchant_type(text)
        template == IF merchant_type # "None"
                    THEN apply_merchant_template(text, basic_receipt, merchant_type)
                    ELSE basic_receipt
        merged == add_missed_items(text, template.items)
        enhanced == [template EXCEPT !.items = enhance_item_parsing(text, template.items)]
        failed == validate_and_correct_raises(enhanced)
    IN [merchant_type |-> merchant_type, template |-> template, merged |-> merged,
        failed |-> failed,
        returned |-> IF failed THEN enhanced
                     ELSE [enhanced EXCEPT
                              !.confidence_score = calculate_enhanced_confidence(enhanced)]]

\* inputs
MaxText == 2
BasicItems ==
    {<<>>, <<[description |-> "MILK", total_price |-> 250, confidence |-> 60],
             [description |-> "TIP", total_price |-> 100, confidence |-> 60],
             [description |-> "milk ", total_price |-> 300, confidence |-> 60]>>}
BasicReceipts ==
    {[merchant_name |-> "", date |-> dt, items |-> items, subtotal |-> subtotal,
      tax_amount |-> NoAmount, tip_amount |-> NoAmount, total_amount |-> total,
      confidence_score |-> 500, form |-> form] :
        dt \in {NoDate, ReceiptDay}, items \in BasicItems, subtotal \in {NoAmount, 800},
        total \in {NoAmount, 1200}, form \in Forms}

InitParse ==
    /\ \E text \in SeqsUpTo(ParserLines, MaxText), basic_receipt \in BasicReceipts :
          prs = [pc |-> "new", text |-> text, basic |-> basic_receipt]
    /\ dup = DupOff
    /\ ldr = LdrOff
    /\ QuietCore

\* _process_single_image_ocr: parse_receipt_advanced(raw_text, receipt_data)
ParseReceiptAdvanced ==
    /\ prs.pc = "new"
    /\ prs' = [pc |-> "done", text |-> prs.text, basic |-> prs.basic,
               out |-> parse_receipt_advanced(prs.text, prs.basic)]
    /\ CoreUnchanged
    /\ UNCHANGED <<dup, ldr>>

NextParse == ParseReceiptAdvanced

SpecParse == InitParse /\ [][NextParse]_vars

\* ========================================================= configuration
\* thresholds in hundredths; a key the file or the environment does not set
Unset == 999

\* ProcessingConfig / StorageConfig defaults
default_config ==
    [confidence_threshold |-> 80, duplicate_threshold |-> 95, max_cache_size_mb |-> 1000]

\* config file contents, RECEIPT_CONFIDENCE_THRESHOLD and --confidence
\* (argparse default 0.8)
FileConfigs ==
    {[confidence_threshold |-> c, duplicate_threshold |-> t, max_cache_size_mb |-> m] :
        c \in {Unset, 50, 150}, t \in {Unset, -5}, m \in {Unset, 0, 1000}}
EnvValues == {Unset, 90, 150}
ArgValues == {0, 80, 150}

\* _merge_configs on one key
Merge(base, override) == IF override # Unset THEN override ELSE base

\* the checks in their order; max_image_size and output_format keep their defaults
validate_config_raises(c) ==
    \/ ~(0 <= c.confidence_threshold /\ c.confidence_threshold <= 100)
    \/ c.max_cache_size_mb <= 0
    \/ ~(0 <= c.duplicate_threshold /\ c.duplicate_threshold <= 100)

\* AppConfig(**config_dict) from defaults, file and environment
merged_config(file, env) ==
    [confidence_threshold |->
        Merge(Merge(default_config.confidence_threshold, file.confidence_threshold), env),
     duplicate_threshold |-> Merge(default_config.duplicate_threshold, file.duplicate_threshold),
     max_cache_size_mb |-> Merge(default_config.max_cache_size_mb, file.max_cache_size_mb)]

NoConfig == [confidence_threshold |-> Unset, duplicate_threshold |-> Unset,
             max_cache_size_mb |-> Unset]

\* load_config on a manager whose _config is `cached`: the new value of
\* _config, the value returned and whether the call raised
load_config(cached, file, env) ==
    IF cached # NoConfig THEN [config |-> cached, returned |-> cached, raised |-> FALSE]
    ELSE [config |-> merged_config(file, env),
          returned |-> IF validate_config_raises(merged_config(file, env))
                       THEN NoConfig ELSE merged_config(file, env),
          raised |-> validate_config_raises(merged_config(file, env))]

MaxLoads == 2

InitLoad ==
    /\ \E file \in FileConfigs, env \in EnvValues, arg \in ArgValues :
          ldr = [pc |-> "new", file |-> file, env |-> env, arg |-> arg, config |-> NoConfig,
                 returned |-> NoConfig, raised |-> FALSE, loads |-> 0, started |-> FALSE]
    /\ dup = DupOff
    /\ prs = PrsOff
    /\ QuietCore

\* config_manager.load_config(), any caller
LoadConfig ==
    /\ ldr.pc \in {"new", "manager"}
    /\ ldr.loads < MaxLoads
    /\ LET r == load_config(ldr.config, ldr.file, ldr.env)
       IN ldr' = [ldr EXCEPT !.pc = "manager", !.config = r.config, !.returned = r.returned,
                             !.raised = r.raised, !.loads = @ + 1]
    /\ CoreUnchanged
    /\ UNCHANGED <<dup, prs>>

\* main(): a new ConfigManager, load_config, the command-line overrides, then
\* processing with the resulting config (a source is given and authentication
\* succeeds); `return 1` when loading raised
Main ==
    /\ ldr.pc = "new"
    /\ LET r == load_config(NoConfig, ldr.file, ldr.env)
           overridden == IF ldr.arg # 0
                         THEN [r.returned EXCEPT !.confidence_threshold = ldr.arg]
                         ELSE r.returned
       IN ldr' = [ldr EXCEPT !.pc = IF r.raised THEN "exit 1" ELSE "processing",
                             !.config = r.config,
                             !.returned = IF r.raised THEN NoConfig ELSE overridden,
                             !.raised = r.raised, !.loads = 1, !.started = ~r.raised]
    /\ CoreUnchanged
    /\ UNCHANGED <<dup, prs>>

NextLoad == LoadConfig \/ Main

SpecLoad == InitLoad /\ [][NextLoad]_vars

\* ================================================================ claims
SeqRange(q) == {q[i] : i \in 1..Len(q)}

RECURSIVE SumSizes(_, _)
SumSizes(d, P) ==
    IF P = {} THEN 0
    ELSE LET p == CHOOSE x \in P : TRUE
         IN st_size(d[p]) + SumSizes(d, P \ {p})

\* total size of the blobs stored in images_dir
BlobTotal(s) == SumSizes(s.disk, DOMAIN s.disk)

Owners(s, h) ==
    {k \in DOMAIN s.files : ~s.files[k].is_duplicate /\ s.files[k].content_hash = h}

\* C1: in every reachable state each content hash carried by an index entry
\* has exactly one non-alias entry, and every alias entry names that entry.
C1_OneOwnerPerHash ==
    \A id \in DOMAIN files :
        /\ Cardinality(Owners(Cur, files[id].content_hash)) = 1
        /\ files[id].is_duplicate =>
               files[id].cache_file_id \in Owners(Cur, files[id].content_hash)

\* C2: two successive successful Puts of the same bytes under different ids
\* a then b, the bytes being new to the cache at a's Put: afterwards Get(a)
\* and Get(b) give the same path and exactly one of the two entries is a
\* non-alias entry.
C2_SameBytesSamePath ==
    [][(/\ ret.op = "put" /\ ret.val = 1 /\ ret.fresh
        /\ ret'.op = "put" /\ ret'.val = 1
        /\ ret'.id # ret.id /\ ret'.content = ret.content)
       => /\ GetOutcome(Cur', ret.id) = "hit"
          /\ GetOutcome(Cur', ret'.id) = "hit"
          /\ GetResult(Cur', ret.id) = GetResult(Cur', ret'.id)
          /\ files'[ret.id].is_duplicate # files'[ret'.id].is_duplicate]_vars

\* C3: enforce_cache_size_limit on a cache whose blobs exceed the budget
\* removes non-alias entries oldest last_accessed first, removes none once
\* the remaining blobs fit the budget, and leaves blobs of total size within
\* the budget.
C3_EvictsOldestUntilUnderBudget ==
    [][(ret'.op = "enforce" /\ BlobTotal(Cur) > config.max_cache_size_mb)
       => /\ \A i \in 1..Len(ret'.removed) :
                \A k \in FileItems(Cur) :
                    files[k].last_accessed < files[ret'.removed[i]].last_accessed
                    => \E j \in 1..(i - 1) : ret'.removed[j] = k
          /\ \A i \in 1..Len(ret'.removed) :
                BlobTotal(RemoveEach(Cur, SubSeq(ret'.removed, 1, i - 1)))
                    > config.max_cache_size_mb
          /\ BlobTotal(Cur') <= config.max_cache_size_mb]_vars

\* C4: enforce_cache_size_limit leaves every alias entry in the index, and
\* a Get on an alias whose target it evicted is a miss.
C4_AliasesOfEvictedMiss ==
    [][ret'.op = "enforce"
       => \A id \in DOMAIN files :
             files[id].is_duplicate
             => /\ id \in DOMAIN files'
                /\ files'[id] = files[id]
                /\ files[id].cache_file_id \in SeqRange(ret'.removed)
                   => GetOutcome(Cur', id) = "miss"]_vars

C4_Witness ==
    /\ ret.op = "enforce"
    /\ \E id \in DOMAIN files :
          /\ files[id].is_duplicate
          /\ files[id].cache_file_id \in SeqRange(ret.removed)

\* C5: the hash index has a key h only if a non-alias entry with content
\* hash h exists and the index maps h to that entry's id.
C5_HashIndexNamesOwner ==
    \A h \in DOMAIN hashes :
        /\ hashes[h] \in DOMAIN files
        /\ ~files[hashes[h]].is_duplicate
        /\ files[hashes[h]].content_hash = h

\* the entry whose cache_path a hit on id resolves to
Holder(s, id) == IF s.files[id].is_duplicate THEN s.files[id].cache_file_id ELSE id

\* C6: a Get that hits sets last_accessed of the entry holding the bytes
\* and changes nothing else in the index; a Get whose backing file is gone
\* is a miss and leaves no index entry and no hash key pointing at the
\* missing file.
C6_GetTouchesOrHeals ==
    [][ret'.op = "get"
       => /\ GetOutcome(Cur, ret'.id) = "hit"
             => /\ files'[Holder(Cur, ret'.id)].last_accessed = now
                /\ hashes' = hashes /\ stats' = stats
                /\ DOMAIN files' = DOMAIN files
                /\ \A k \in DOMAIN files :
                      [files'[k] EXCEPT !.last_accessed = 0]
                          = [files[k] EXCEPT !.last_accessed = 0]
          /\ GetOutcome(Cur, ret'.id) = "gone"
             => /\ ret'.val = NoPath
                /\ \A k \in DOMAIN files' :
                      ~files'[k].is_duplicate => files'[k].cache_path \in DOMAIN disk'
                /\ \A h \in DOMAIN hashes' :
                      /\ hashes'[h] \in DOMAIN files'
                      /\ files'[hashes'[h]].cache_path \in DOMAIN disk']_vars

\* C9: after cleanup_cache(max_age_days) no entry cached before the cutoff
\* remains, and every entry cached at or after the cutoff is still there,
\* unchanged.
C9_CleanupRemovesExactlyOld ==
    [][ret'.op = "cleanup"
       => /\ \A id \in DOMAIN files' : files'[id].cached_at >= now - ret'.val
          /\ \A id \in DOMAIN files :
                files[id].cached_at >= now - ret'.val
                => id \in DOMAIN files' /\ files'[id] = files[id]]_vars

C9_Witness ==
    /\ ret.op = "cleanup"
    /\ ret.removed # <<>>
    /\ \E id \in DOMAIN files : files[id].cached_at >= now - ret.val
    /\ stats.total_size_bytes > config.max_cache_size_mb
\* C7: two add_file_to_cache calls running concurrently for different ids
\* with the same bytes never both create a non-alias entry.
C7_NoDoubleCreate ==
    /\ \A a \in DOMAIN files, b \in DOMAIN files :
          (a # b /\ files[a].content_hash = files[b].content_hash)
          => (files[a].is_duplicate \/ files[b].is_duplicate)
    /\ \A t \in DOMAIN thr, u \in DOMAIN thr :
          (/\ t # u
           /\ thr[t].pc \in {"copy", "index"} /\ thr[u].pc \in {"copy", "index"}
           /\ thr[t].content = thr[u].content)
          => thr[t].file_id = thr[u].file_id

\* a blob at file_id's cache path exactly when file_id has a non-alias entry
Consistent(s, id) ==
    (get_cached_file_path(id) \in DOMAIN s.disk)
        <=> (id \in DOMAIN s.files /\ ~s.files[id].is_duplicate)

\* C8: after a crash and restart a Get on a logical id leaves no blob
\* without index entry and no index entry without blob for that id; and when
\* add_file_to_cache has returned True the index file holds its entry.
C8_CrashConsistent ==
    [][/\ (ret.op = "restart" /\ ret'.op = "get") => Consistent(Cur', ret'.id)
       /\ (ret'.op = "put" /\ ret'.val = 1)
          => /\ persisted'.ok
             /\ ret'.id \in DOMAIN persisted'.index.files
             /\ persisted'.index.files[ret'.id] = files'[ret'.id]]_vars
MethodRank(m) ==
    IF m = "google_vision" THEN 1 ELSE IF m = "google_vision_document" THEN 2 ELSE 3

\* a call whose result reached confidence_threshold
Cleared(call) == call.kind = "ok" /\ call.confidence >= ocfg.confidence_threshold

\* C10: _perform_ocr calls the engines in the order text detection,
\* document detection, local engine; a later engine is called only if every
\* earlier call errored or stayed below confidence_threshold; the first call
\* that reaches the threshold is the last call made and is what is returned.
C10_FallbackOrder ==
    /\ \A i \in 1..Len(ocr.calls), j \in 1..Len(ocr.calls) :
          i < j => /\ MethodRank(ocr.calls[i].method) < MethodRank(ocr.calls[j].method)
                   /\ ~Cleared(ocr.calls[i])
    /\ \A i \in 1..Len(ocr.calls) :
          Cleared(ocr.calls[i])
          => /\ i = Len(ocr.calls)
             /\ ocr.pc = "done"
             /\ ocr.result.success
             /\ ocr.result.method = ocr.calls[i].method
             /\ ocr.result.confidence = ocr.calls[i].confidence

C10_Witness ==
    /\ ocr.pc = "done"
    /\ Len(ocr.calls) = 2
    /\ ocr.calls[1].kind = "ok"
    /\ Cleared(ocr.calls[2])
    /\ ocr.result.method = "google_vision_document"

\* the highest confidence among the attempts made that returned a result
BestConfidence ==
    LET oks == {i \in 1..Len(ocr.calls) : ocr.calls[i].kind = "ok"} IN
    IF oks = {} THEN 0
    ELSE CHOOSE c \in {ocr.calls[i].confidence : i \in oks} :
            \A i \in oks : ocr.calls[i].confidence <= c

TessResults ==
    {i \in 1..Len(ocr.calls) :
        ocr.calls[i].method = "tesseract" /\ ocr.calls[i].kind = "ok"}

\* C11: when _perform_ocr has returned and no cloud call reached
\* confidence_threshold, then with the local fallback enabled (and the local
\* engine having produced a result) the result is the local engine's;
\* otherwise the result has success False and carries the confidence of the
\* highest-confidence attempt made.
C11_BestAttemptOrFallback ==
    (ocr.pc = "done" /\ \A i \in 1..Len(ocr.calls) :
                            ocr.calls[i].method = "tesseract" \/ ~Cleared(ocr.calls[i]))
    => IF ocfg.fallback_to_tesseract /\ TessResults # {}
       THEN /\ ocr.result.method = "tesseract"
            /\ \A i \in TessResults : ocr.result.confidence = ocr.calls[i].confidence
       ELSE /\ ~ocr.result.success
            /\ ocr.result.confidence = BestConfidence

\* the chain has gone past an engine only after calling it, when it may be called
Tried ==
    /\ (ocr.pc \in {"doc", "tess", "done"} /\ ocfg.vision_available)
       => \E i \in 1..Len(ocr.calls) : ocr.calls[i].method = "google_vision"
    /\ (/\ ocr.pc \in {"tess", "done"}
        /\ \E i \in 1..Len(ocr.calls) :
              ocr.calls[i].method = "google_vision" /\ ~Cleared(ocr.calls[i]))
       => \E i \in 1..Len(ocr.calls) : ocr.calls[i].method = "google_vision_document"
    /\ (/\ ocr.pc = "done"
        /\ ocfg.fallback_to_tesseract /\ ocfg.tesseract_available
        /\ \A i \in 1..Len(ocr.calls) : ~Cleared(ocr.calls[i]) \/ ocr.calls[i].method = "tesseract")
       => \E i \in 1..Len(ocr.calls) : ocr.calls[i].method = "tesseract"

\* C12: whatever each engine does (result at or above the threshold, result
\* below it, exception, unavailable), _perform_ocr reaches its return with a
\* result record, and an engine that raised or stayed below the threshold is
\* always followed by a call of the next engine that may be called.
C12_ChainNeverAborts ==
    /\ [](Tried /\ (ocr.pc = "done" =>
                        ocr.result \in [success : BOOLEAN,
                                        method : {"google_vision", "google_vision_document",
                                                  "tesseract", "none"},
                                        confidence : 0..MaxConf,
                                        text : {"", "engine text"},
                                        error : {"", "All OCR methods failed"}]))
    /\ <>(ocr.pc = "done")

C12_Witness ==
    /\ ocr.pc = "done"
    /\ Len(ocr.calls) = 3
    /\ ocr.calls[1].kind = "error"
    /\ ocr.calls[2].kind = "error"
    /\ ocr.calls[3].method = "tesseract"
    /\ ocr.result.success

\* the item at position i of the input failed
ItemFailed(i) ==
    IF batch.op = "batch_process_images" THEN batch.input[i] = "error"
    ELSE batch.input[i].status = "error" \/ batch.input[i].ocr = "error"

\* C13: every batch-level operation whose source exists returns (does not
\* raise), with one result per input item in input order, and an item that
\* failed has a result with success False and an error.
C13_BatchCompletes ==
    (batch.op # "none" /\ batch.out.error # "ValueError")
    => /\ batch.out.kind = "returned"
       /\ Len(batch.out.results) = Len(batch.input)
       /\ \A i \in 1..Len(batch.input) :
             /\ batch.out.results[i].id = i
             /\ ItemFailed(i) => /\ ~batch.out.results[i].success
                                 /\ batch.out.results[i].error # ""

\* C14: a record whose total_amount is unset gets exactly one critical issue,
\* its type is missing_total, and is_valid is False.
C14_MissingTotalOneCritical ==
    (vld.pc = "done" /\ vld.receipt.total_amount = NoAmount)
    => /\ Cardinality(Critical(vld.result.issues)) = 1
       /\ \A i \in Critical(vld.result.issues) : vld.result.issues[i].type = "missing_total"
       /\ ~vld.result.is_valid

\* C15: is_valid is exactly (confidence_score >= min_confidence_threshold and
\* no critical issue), with the confidence_score of the same result.
C15_IsValidDefinition ==
    vld.pc = "done"
    => (vld.result.is_valid
        <=> /\ vld.result.confidence_score >= vld.min_confidence_threshold * Unit
            /\ Critical(vld.result.issues) = {})

C15_Witness ==
    /\ vld.pc = "done"
    /\ vld.result.confidence_score >= vld.min_confidence_threshold * Unit
    /\ Critical(vld.result.issues) # {}
    /\ vld.receipt.form = "native"

\* C16: a record whose total_amount is present gets no critical issue, and
\* is_valid is then decided by the confidence alone.
C16_OnlyMissingTotalIsCritical ==
    (vld.pc = "done" /\ vld.receipt.total_amount # NoAmount)
    => /\ Critical(vld.result.issues) = {}
       /\ vld.result.is_valid
          <=> vld.result.confidence_score >= vld.min_confidence_threshold * Unit

\* C17: with subtotal, tax and total all present, in whole cents, and
\* subtotal + tax within 0.02 of total (0.02 included, tip present or not),
\* the calculations sub-score is at least 0.8.
C17_TotalCreditWithinTwoCents ==
    (/\ vld.pc = "done"
     /\ "calculations" \in DOMAIN vld.result.validation_scores
     /\ vld.receipt.subtotal # NoAmount
     /\ vld.receipt.tax_amount # NoAmount
     /\ vld.receipt.total_amount # NoAmount
     /\ Abs(vld.receipt.subtotal + vld.receipt.tax_amount - vld.receipt.total_amount) <= 2)
    => vld.result.validation_scores["calculations"] >= Tenths(8)

\* C19: every sub-score lies in [0, 1]; the overall confidence lies in [0, 1]
\* and, when the six checks have run, is 0.30 amounts + 0.25 calculations
\* + 0.15 merchant + 0.15 items + 0.10 date_time + 0.05 data_quality.
C19_ScoresInUnitInterval ==
    vld.pc = "done"
    => LET scores == vld.result.validation_scores IN
       /\ \A c \in DOMAIN scores : scores[c] >= 0 /\ scores[c] <= Unit
       /\ vld.result.confidence_score >= 0
       /\ vld.result.confidence_score <= 100 * Unit
       /\ DOMAIN scores = {"merchant", "date_time", "amounts", "items",
                           "calculations", "data_quality"}
          => vld.result.confidence_score =
                30 * scores["amounts"] + 25 * scores["calculations"]
                + 15 * scores["merchant"] + 15 * scores["items"]
                + 10 * scores["date_time"] + 5 * scores["data_quality"]

C19_Witness ==
    /\ vld.pc = "done"
    /\ DOMAIN vld.result.validation_scores =
          {"merchant", "date_time", "amounts", "items", "calculations", "data_quality"}
    /\ vld.result.validation_scores["amounts"] = Unit
    /\ vld.result.validation_scores["merchant"] = Unit
    /\ vld.result.validation_scores["date_time"] = Unit
    /\ vld.result.validation_scores["items"] = Unit
    /\ vld.result.validation_scores["data_quality"] > 0
    /\ vld.receipt.confidence_score = MaxConf

\* C20: validating the same record again, at whatever wall-clock date, gives
\* the same confidence score and the same is_valid.
C20_NoWallClock ==
    [][(vld.pc = "done" /\ vld'.pc = "done" /\ vld'.receipt = vld.receipt)
       => /\ vld'.result.confidence_score = vld.result.confidence_score
          /\ vld'.result.is_valid = vld.result.is_valid]_vars

\* the text 'Subtotal: 10.00' / 'Tax: 0.80' / 'Total: 10.80'
ClaimText ==
    <<[label |-> <<"S", "u", "b", "t", "o", "t", "a", "l">>, amount |-> [whole |-> 10, frac |-> 0]],
      [label |-> <<"T", "a", "x">>, amount |-> [whole |-> 0, frac |-> 80]],
      [label |-> <<"T", "o", "t", "a", "l">>, amount |-> [whole |-> 10, frac |-> 80]]>>

\* C18: from the three lines Subtotal 10.00, Tax 0.80, Total 10.80 the extractor
\* takes subtotal 10.00, tax 0.80 and total 10.80, and the calculations
\* sub-score of that record is at least 0.8.
C18_TotalNotFromSubtotal ==
    (ext.pc = "done" /\ ext.text = ClaimText)
    => /\ ext.receipt.subtotal = 1000
       /\ ext.receipt.tax_amount = 80
       /\ ext.receipt.total_amount = 1080
       /\ ext.calculations >= Tenths(8)

\* C27: constructing a CacheManager after a crash succeeds, whatever state the
\* index file was left in.
C27_ConstructorSurvivesBadIndex ==
    ret.op = "restart" => up

\* get_cache_stats: unique_files
unique_files(s) ==
    s.stats.total_files
        - Cardinality({id \in DOMAIN s.files : s.files[id].is_duplicate})

NonAlias(s) == {id \in DOMAIN s.files : ~s.files[id].is_duplicate}

\* C28: total_size_bytes is the sum of file_size over the non-alias entries,
\* total_files is their number, and unique_files equals that number too.
C28_StatsMatchEntries ==
    /\ stats.total_files = Cardinality(NonAlias(Cur))
    /\ stats.total_size_bytes =
          SumOver([id \in NonAlias(Cur) |-> files[id].file_size], NonAlias(Cur))
    /\ unique_files(Cur) = Cardinality(NonAlias(Cur))

\* C29: a result with success True comes from a cloud method with confidence
\* at or above the threshold, or from the local engine with the fallback
\* enabled and the engine available; a result with success False has method
\* 'none', empty text, confidence 0 and a non-empty error.
C29_ResultShape ==
    ocr.pc = "done"
    => IF ocr.result.success
       THEN \/ /\ ocr.result.method \in {"google_vision", "google_vision_document"}
               /\ ocr.result.confidence >= ocfg.confidence_threshold
            \/ /\ ocr.result.method = "tesseract"
               /\ ocfg.fallback_to_tesseract
               /\ ocfg.tesseract_available
       ELSE /\ ocr.result.method = "none"
            /\ ocr.result.text = ""
            /\ ocr.result.confidence = 0
            /\ ocr.result.error # ""

C29_Witness ==
    /\ ocr.pc = "done"
    /\ ocr.result.success
    /\ ocr.result.method = "tesseract"
    /\ ocr.result.confidence < ocfg.confidence_threshold
    /\ Len(ocr.calls) = 3

\* duplicate detector
DiffBits(a, b) == Cardinality({i \in 1..HashBits : a[i] # b[i]})

\* C22: the similarity of two fingerprints of N = 64 bits that differ in k bits
\* is 1 - k/N, so 1.0 for a fingerprint and itself; it is the same with the
\* arguments swapped and lies in [0, 1], also when a hex string has lost
\* leading zero digits.
C22_SimilarityIsHamming ==
    dup.op = "similarity"
    => /\ dup.out * HashBits = SimUnit * (HashBits - DiffBits(dup.a, dup.b))
       /\ (dup.a = dup.b => dup.out = SimUnit)
       /\ dup.out = calculate_hash_similarity(dup.hash2, dup.hash1)
       /\ dup.out \in 0..SimUnit

C22_Witness ==
    /\ dup.op = "similarity"
    /\ Len(dup.hash1) < Len(dup.hash2)
    /\ DiffBits(dup.a, dup.b) = 2
    /\ dup.out = SimUnit - 200

Hashed(f) == f.image \in Pictures
FingerprintSim(f, g) ==
    calculate_hash_similarity(calculate_image_hash(f.image), calculate_image_hash(g.image))
Reports(out, x, y) ==
    {k \in 1..Len(out.duplicates) :
        {out.duplicates[k].file_id_1, out.duplicates[k].file_id_2} = {x, y}}

\* C23: find_duplicates_in_batch reports a pair of distinct batch items at most
\* once, and exactly when the fingerprint similarity is >= threshold and the
\* larger of fingerprint and structural similarity is >= threshold; the
\* structural comparison runs only for pairs that passed the fingerprint
\* stage, and similarity_score is that larger value.
C23_TwoStageGate ==
    dup.op = "find"
    => \A i, j \in 1..Len(dup.batch) :
          i < j =>
          LET f == dup.batch[i]
              g == dup.batch[j]
              R == Reports(dup.out, f.file_id, g.file_id)
              passed == IF Hashed(f) /\ Hashed(g)
                        THEN FingerprintSim(f, g) >= dup.threshold ELSE FALSE
              best == IF Hashed(f) /\ Hashed(g)
                      THEN Max2(FingerprintSim(f, g), compare_images_structural(f.image, g.image))
                      ELSE 0
          IN /\ Cardinality(R) <= 1
             /\ (R # {}) <=> (passed /\ best >= dup.threshold)
             /\ \A k \in R : dup.out.duplicates[k].similarity_score = best
             /\ ({<<f.file_id, g.file_id>>, <<g.file_id, f.file_id>>} \cap dup.out.structural # {})
                => passed

\* a batch of three with one pair reported on the fingerprint alone (the
\* structural score is below the threshold) and one pair stopped at the
\* fingerprint stage
C23_Witness ==
    /\ dup.op = "find"
    /\ Len(dup.batch) = 3
    /\ Cardinality(dup.out.structural) = 1
    /\ \E k \in 1..Len(dup.out.duplicates) :
          \E i, j \in 1..3 :
             /\ dup.batch[i].file_id = dup.out.duplicates[k].file_id_1
             /\ dup.batch[j].file_id = dup.out.duplicates[k].file_id_2
             /\ compare_images_structural(dup.batch[i].image, dup.batch[j].image) < dup.threshold
    /\ \A i \in 1..3 : Hashed(dup.batch[i])

MatchedIds(m) == UNION {{m[k].file_id_1, m[k].file_id_2} : k \in 1..Len(m)}
RECURSIVE Reach(_, _)
Reach(m, S) ==
    LET T == S \cup {y \in MatchedIds(m) :
                       \E k \in 1..Len(m) : \E x \in S :
                          {m[k].file_id_1, m[k].file_id_2} = {x, y}}
    IN IF T = S THEN S ELSE Reach(m, T)

\* C21: the groups are the connected components of size >= 2 of the graph of
\* matches: pairwise disjoint, no id twice, every id matched with another id
\* in exactly one group, two ids together iff a path of matches joins them.
C21_GroupsAreComponents ==
    dup.op = "groups"
    => /\ {SeqRange(dup.out[k]) : k \in 1..Len(dup.out)}
          = {C \in {Reach(dup.matches, {x}) : x \in MatchedIds(dup.matches)} : Cardinality(C) >= 2}
       /\ \A k \in 1..Len(dup.out) : Cardinality(SeqRange(dup.out[k])) = Len(dup.out[k])
       /\ \A k, l \in 1..Len(dup.out) : k # l => SeqRange(dup.out[k]) \cap SeqRange(dup.out[l]) = {}

\* matches (A,B), (B,C) joined into one group of three
C21_Witness ==
    /\ dup.op = "groups"
    /\ Len(dup.matches) = 2
    /\ Len(dup.out) = 1
    /\ Len(dup.out[1]) = 3

\* matches (A,B), (C,D) kept as two groups
C21_TwoGroups == dup.op = "groups" /\ Len(dup.matches) = 2 /\ Len(dup.out) = 2

\* receipt parser
Populated(receipt) ==
    [items |-> receipt.items # <<>>, total_amount |-> receipt.total_amount # NoAmount,
     tax_amount |-> receipt.tax_amount # NoAmount, tip_amount |-> receipt.tip_amount # NoAmount]
LineWith(keywords, amount) ==
    \E i \in 1..Len(prs.text) :
       LowerWord(prs.text[i].word) \in keywords /\ prs.text[i].amount = amount

\* C24: the merchant pass never empties a populated field: items change only
\* to a non-empty list of lines an item pattern of the merchant matched;
\* total, tax and tip change only to the amount printed on a line their
\* pattern matches; without a merchant signature the pass changes nothing.
C24_MerchantPassKeepsPopulated ==
    prs.pc = "done"
    => LET b == prs.basic
           m == prs.out.template
       IN /\ \A f \in {"items", "total_amount", "tax_amount", "tip_amount"} :
                Populated(b)[f] => Populated(m)[f]
          /\ m.items # b.items
             => /\ m.items # <<>>
                /\ \A k \in 1..Len(m.items) :
                      \E i \in 1..Len(prs.text) :
                         /\ prs.text[i].word = m.items[k].description
                         /\ prs.text[i].amount = m.items[k].total_price
                         /\ item_pattern_matches(prs.out.merchant_type, prs.text[i])
          /\ m.total_amount # b.total_amount => LineWith({"total", "subtotal"}, m.total_amount)
          /\ m.tax_amount # b.tax_amount => LineWith({"tax"}, m.tax_amount)
          /\ m.tip_amount # b.tip_amount => LineWith({"tip"}, m.tip_amount)
          /\ prs.out.merchant_type = "None" => m = b
          /\ [m EXCEPT !.items = b.items, !.total_amount = b.total_amount,
                       !.tax_amount = b.tax_amount, !.tip_amount = b.tip_amount] = b

\* a merchant was recognised, its item patterns found nothing and the items
\* stayed, while the printed total replaced the extracted one
C24_Witness ==
    /\ prs.pc = "done"
    /\ prs.out.merchant_type = "walmart"
    /\ prs.basic.items # <<>>
    /\ prs.out.template.items = prs.basic.items
    /\ prs.basic.total_amount = 1200
    /\ prs.out.template.total_amount = 1000

DescriptionKey(item) == Strip(LowerWord(item.description))
FirstOfKey(q) == {i \in 1..Len(q) : \A j \in 1..(i - 1) : DescriptionKey(q[j]) # DescriptionKey(q[i])}
RECURSIVE Pick(_, _, _)
Pick(q, I, i) ==
    IF i > Len(q) THEN <<>>
    ELSE (IF i \in I THEN <<q[i]>> ELSE <<>>) \o Pick(q, I, i + 1)

\* C25: the returned items have pairwise different descriptions up to case and
\* surrounding whitespace; they are the first item of every description, in
\* the order of the list they were taken from.
C25_ItemsDeduplicated ==
    prs.pc = "done"
    => LET items == prs.out.returned.items
       IN /\ \A i, j \in 1..Len(items) :
                i # j => DescriptionKey(items[i]) # DescriptionKey(items[j])
          /\ items = Pick(prs.out.merged, FirstOfKey(prs.out.merged), 1)

\* "MILK", "TIP", "milk " came in: "milk " was dropped, the order kept
C25_Witness ==
    /\ prs.pc = "done"
    /\ Len(prs.out.merged) = 3
    /\ Len(prs.out.returned.items) = 2
    /\ prs.out.returned.items[1].description = "MILK"
    /\ prs.out.returned.items[2].description = "TIP"

\* C30: when a step of parse_receipt_advanced fails, the record returned has
\* the field values of the record that was passed in.
C30_FailureReturnsInput ==
    prs.pc = "done" /\ prs.out.failed => prs.out.returned = prs.basic

\* configuration
InRange(c) ==
    /\ c.confidence_threshold \in 0..100
    /\ c.duplicate_threshold \in 0..100
    /\ c.max_cache_size_mb > 0

\* C26: no processing starts with, and no load_config call returns, a
\* configuration whose confidence_threshold or duplicate_threshold is outside
\* [0, 1] or whose max_cache_size_mb is not positive.
C26_NoOutOfRangeRun ==
    /\ ldr.pc = "processing" => InRange(ldr.returned)
    /\ ldr.pc = "manager" /\ ~ldr.raised => InRange(ldr.returned)

====
